---- MODULE Spec2Model ----
(***************************************************************************)
(* Memory and transcript core of the assistant: the session transcript     *)
(* store (SessionManager), the BM25 document index (BM25Index) and the     *)
(* context compactor (MemorySystem.compact), with the services around      *)
(* them: MemorySystem.indexWorkspace and loadBootstrap, the SecurityManager *)
(* and the GatewayServer.                                                  *)
(*                                                                         *)
(* Text is modelled as a sequence of characters, each a one-character      *)
(* string.  A JSON key with its colon, a numeral, a literal (true, false)  *)
(* and the hex digits of a UUID are each one token: none of them contains  *)
(* a newline, white space, a quote or a backslash, so the line splitting,  *)
(* trimming, '#' test and string escaping of the code see them as they see *)
(* the characters they stand for.                                          *)
(***************************************************************************)
EXTENDS Integers, Sequences, FiniteSets, TLC

VARIABLES
    files,          \* sessions directory: session id -> content of <id>.jsonl
    birth,          \* session id -> birthtime of the log file
    now,            \* Date.now()
    uuids,          \* number of randomUUID() values drawn so far
    procs,          \* the asynchronous calls in flight, one record per caller
    ret,            \* what the call that finished last returned
    returned,       \* session id -> entries returned by finished appendMessage calls
    deleteCalled,   \* session ids delete() has been called on
    faults,         \* crashes and foreign writes so far
    documents,      \* BM25Index.documents: id -> IndexedDocument
    documentFrequency, \* BM25Index.documentFrequency: term -> number of documents
    avgDocLength,   \* BM25Index.avgDocLength, as <<total length, documents>>
    history,        \* the history handed to compact
    maxTokens,      \* the token budget handed to compact
    diskOk,         \* whether writeFile of the facts note succeeds
    notes,          \* memory directory: note file name -> content
    compacted,      \* what compact returned: <<>> before the call, <<result>> after
    bootstrapCache, \* MemorySystem.bootstrapCache: <<>> for null, or <<[soul, user]>>
    clients,        \* GatewayServer.clients: client id -> ClientConnection
    inFlightRequests, \* GatewayServer.inFlightRequests: request id -> InFlightRequest
    isShuttingDown, \* GatewayServer.isShuttingDown
    httpServer,     \* GatewayServer.httpServer: "null", "listening" or "closing"
    stopping,       \* where the stop() in flight is: <<>> for none, or <<position>>
    aborted,        \* the requests whose abortController.abort() was called
    cachedToken,    \* SecurityManager.cachedToken: <<>> for null, or <<token>>
    authStore       \* auth.json: <<>> when there is none, or <<AuthStore>>

vars == <<files, birth, now, uuids, procs, ret, returned, deleteCalled, faults,
          documents, documentFrequency, avgDocLength,
          history, maxTokens, diskOk, notes, compacted,
          bootstrapCache, clients, inFlightRequests, isShuttingDown, httpServer,
          stopping, aborted, cachedToken, authStore>>

sessionVars == <<files, birth, now, uuids, procs, ret, returned, deleteCalled, faults>>
indexVars == <<documents, documentFrequency, avgDocLength>>
compactVars == <<history, maxTokens, diskOk, notes, compacted>>
gatewayVars == <<clients, inFlightRequests, isShuttingDown, httpServer, stopping,
                 aborted>>
securityVars == <<cachedToken, authStore>>
serviceVars == <<bootstrapCache, gatewayVars, securityVars>>

-----------------------------------------------------------------------------
(* Bounds of the model.                                                    *)

MaxUuids == 3
MaxClock == 2
MaxFaults == 1

-----------------------------------------------------------------------------
(* Characters and strings.                                                 *)

Q == "\""
BS == "\\"
NL == "\n"
SP == " "
HASH == "#"

RECURSIVE Flatten(_)
Flatten(ss) == IF ss = <<>> THEN <<>> ELSE Head(ss) \o Flatten(Tail(ss))

IsWs(c) == c \in {SP, NL}

\* String.prototype.trim
Trim(s) ==
    LET Between(inked) ==
            IF inked = <<>> THEN <<>> ELSE SubSeq(s, inked[1], inked[Len(inked)])
    IN  Between(SelectSeq([i \in 1..Len(s) |-> i], LAMBDA i : ~IsWs(s[i])))

\* String.prototype.split on a separator of one character out of seps
SplitOn(s, seps) ==
    LET \* the positions of s, in order, whose character is a separator
        PositionsOf == SelectSeq([i \in 1..Len(s) |-> i], LAMBDA i : s[i] \in seps)
        \* the pieces of s between the separators at the positions sep
        Pieces(sep) ==
            [j \in 1..(Len(sep) + 1) |->
                SubSeq(s, IF j = 1 THEN 1 ELSE sep[j - 1] + 1,
                          IF j = Len(sep) + 1 THEN Len(s) ELSE sep[j] - 1)]
    IN  Pieces(PositionsOf)

\* content.split('\n')
SplitLines(s) == SplitOn(s, {NL})

\* lines.join('\n')
RECURSIVE JoinLines(_)
JoinLines(ls) ==
    IF ls = <<>> THEN <<>>
    ELSE IF Len(ls) = 1 THEN Head(ls)
    ELSE Head(ls) \o <<NL>> \o JoinLines(Tail(ls))

StartsWithHash(s) == s # <<>> /\ Head(s) = HASH

-----------------------------------------------------------------------------
(* JSON.stringify and JSON.parse of the values the transcript holds.       *)

Nums == 0..(MaxClock + 1)
NumTok(n) == ToString(n)
NumOf(t) == CHOOSE n \in Nums : NumTok(n) = t

\* randomUUID(): the n-th value drawn
UUID(n) == <<"u", ToString(n)>>

\* the keys of TranscriptEntry and SessionMetadata, each with its colon, as
\* JSON.stringify writes them
Key == [id |-> "\"id\":",
        timestamp |-> "\"timestamp\":",
        role |-> "\"role\":",
        content |-> "\"content\":",
        toolCall |-> "\"toolCall\":",
        toolResult |-> "\"toolResult\":",
        name |-> "\"name\":",
        arguments |-> "\"arguments\":",
        callId |-> "\"callId\":",
        success |-> "\"success\":",
        output |-> "\"output\":",
        createdAt |-> "\"createdAt\":",
        version |-> "\"version\":"]

\* an escape that leaves a line feed as it is
EscapeCharNoNewline(c) ==
    IF c = Q THEN <<BS, Q>>
    ELSE IF c = BS THEN <<BS, BS>>
    ELSE <<c>>

\* the escape JSON.stringify writes for one character of a string
EscapeChar(c) ==
    IF c = NL THEN <<BS, "n">>
    ELSE IF c = Q THEN <<BS, Q>>
    ELSE IF c = BS THEN <<BS, BS>>
    ELSE <<c>>

\* JSON.stringify of a string
Quote(s) == <<Q>> \o Flatten([i \in 1..Len(s) |-> EscapeChar(s[i])]) \o <<Q>>

BoolTok(b) == IF b THEN "true" ELSE "false"

StringifyToolCall(tc) ==
    <<"{", Key.id>> \o Quote(tc.id) \o <<",", Key.name>> \o Quote(tc.name)
        \o <<",", Key.arguments>> \o Quote(tc.arguments) \o <<"}">>

StringifyToolResult(tr) ==
    <<"{", Key.callId>> \o Quote(tr.callId) \o <<",", Key.success, BoolTok(tr.success)>>
        \o <<",", Key.output>> \o Quote(tr.output) \o <<"}">>

\* JSON.stringify(entry): keys in the order of { id, timestamp, ...message };
\* an undefined toolCall or toolResult writes no key
StringifyEntry(e) ==
    <<"{", Key.id>> \o Quote(e.id) \o <<",", Key.timestamp, NumTok(e.timestamp)>>
        \o <<",", Key.role>> \o Quote(e.role) \o <<",", Key.content>> \o Quote(e.content)
        \o (IF e.toolCall = <<>> THEN <<>>
            ELSE <<",", Key.toolCall>> \o StringifyToolCall(e.toolCall[1]))
        \o (IF e.toolResult = <<>> THEN <<>>
            ELSE <<",", Key.toolResult>> \o StringifyToolResult(e.toolResult[1]))
        \o <<"}">>

\* JSON.stringify(metadata) of { id, createdAt, version: 1 }
StringifyMetadata(m) ==
    <<"{", Key.id>> \o Quote(m.id) \o <<",", Key.createdAt, NumTok(m.createdAt)>>
        \o <<",", Key.version, NumTok(m.version), "}">>

\* the character at i follows a backslash that is not itself escaped: the
\* number of backslashes in a row just before position i is odd
IsEscaped(s, i) ==
    Len(SelectSeq([j \in 1..(i - 1) |-> j],
                  LAMBDA j : \A k \in j..(i - 1) : s[k] = BS)) % 2 = 1

\* the positions of the quotes that open or close a JSON string
StringQuotes(t) == SelectSeq([i \in 1..Len(t) |-> i], LAMBDA i : t[i] = Q /\ ~IsEscaped(t, i))

\* the JSON string between the quotes at a and b: no raw line feed, every
\* backslash followed by n, a quote or a backslash
StringOk(t, a, b) ==
    \A j \in (a + 1)..(b - 1) :
        /\ t[j] # NL
        /\ (t[j] = BS /\ ~IsEscaped(t, j)) => t[j + 1] \in {"n", Q, BS}

\* the characters the JSON string between the quotes at a and b stands for
StringValue(t, a, b) ==
    LET Unescape(kept) ==
            [k \in 1..Len(kept) |->
                IF t[kept[k]] = "n" /\ IsEscaped(t, kept[k]) THEN NL ELSE t[kept[k]]]
    IN  Unescape(SelectSeq([j \in 1..(b - a - 1) |-> a + j],
                           LAMBDA j : ~(t[j] = BS /\ ~IsEscaped(t, j))))

\* the text outside its strings, a string, a number and a boolean each
\* standing as one mark
Skeleton(t, quotes) ==
    LET Mark(i) ==
            IF t[i] = Q THEN "<string>"
            ELSE IF \E n \in Nums : t[i] = NumTok(n) THEN "<number>"
            ELSE IF t[i] \in {"true", "false"} THEN "<boolean>"
            ELSE t[i]
        outside == SelectSeq([i \in 1..Len(t) |-> i],
                       LAMBDA i : ~\E k \in 1..(Len(quotes) \div 2) :
                                      quotes[2 * k - 1] < i /\ i <= quotes[2 * k])
    IN  [j \in 1..Len(outside) |-> Mark(outside[j])]

EntryHead ==
    <<"{", Key.id, "<string>", ",", Key.timestamp, "<number>", ",", Key.role, "<string>",
      ",", Key.content, "<string>">>

ToolCallPart ==
    <<",", Key.toolCall, "{", Key.id, "<string>", ",", Key.name, "<string>", ",", Key.arguments,
      "<string>", "}">>

ToolResultPart ==
    <<",", Key.toolResult, "{", Key.callId, "<string>", ",", Key.success, "<boolean>", ",",
      Key.output, "<string>", "}">>

MetadataShape ==
    <<"{", Key.id, "<string>", ",", Key.createdAt, "<number>", ",", Key.version, "<number>", "}">>

\* the object a transcript line holds: the keys of a TranscriptEntry in the
\* order JSON.stringify writes them
ParseEntryWith(t, quotes, skeleton) ==
    LET hasCall ==
            skeleton \in {EntryHead \o ToolCallPart \o <<"}">>,
                          EntryHead \o ToolCallPart \o ToolResultPart \o <<"}">>}
        hasResult ==
            skeleton \in {EntryHead \o ToolResultPart \o <<"}">>,
                          EntryHead \o ToolCallPart \o ToolResultPart \o <<"}">>}
        str(k) == StringValue(t, quotes[2 * k - 1], quotes[2 * k])
        r == IF hasCall THEN 3 ELSE 0
    IN  IF /\ Len(quotes) % 2 = 0
           /\ hasCall \/ hasResult \/ skeleton = EntryHead \o <<"}">>
           /\ \A k \in 1..(Len(quotes) \div 2) :
                  StringOk(t, quotes[2 * k - 1], quotes[2 * k])
        THEN [ok |-> TRUE,
              val |-> [id |-> str(1), timestamp |-> NumOf(t[quotes[2] + 3]),
                       role |-> str(2), content |-> str(3),
                       toolCall |->
                           IF hasCall
                           THEN <<[id |-> str(4), name |-> str(5), arguments |-> str(6)]>>
                           ELSE <<>>,
                       toolResult |->
                           IF hasResult
                           THEN <<[callId |-> str(r + 4),
                                   success |-> t[quotes[2 * (r + 4)] + 3] = "true",
                                   output |-> str(r + 5)]>>
                           ELSE <<>>]]
        ELSE [ok |-> FALSE, val |-> <<>>]

ParseEntryObject(t) == ParseEntryWith(t, StringQuotes(t), Skeleton(t, StringQuotes(t)))

\* JSON.parse(line) as TranscriptEntry; JSON.parse skips white space around the value
ParseEntry(line) == ParseEntryObject(Trim(line))

\* the object a metadata line holds after its '#'
ParseMetadataWith(t, quotes, skeleton) ==
    IF /\ Len(quotes) = 2
       /\ skeleton = MetadataShape
       /\ StringOk(t, quotes[1], quotes[2])
    THEN [ok |-> TRUE,
          val |-> [id |-> StringValue(t, quotes[1], quotes[2]),
                   createdAt |-> NumOf(t[quotes[2] + 3]),
                   version |-> NumOf(t[quotes[2] + 6])]]
    ELSE [ok |-> FALSE, val |-> <<>>]

\* JSON.parse(line.slice(1)) as SessionMetadata
ParseMetadata(text) ==
    LET object(t) == ParseMetadataWith(t, StringQuotes(t), Skeleton(t, StringQuotes(t)))
    IN  object(Trim(text))

\* JSON.parse(line) of a line that does not start with '#': any JSON value
\* parses, whether it has the fields of a TranscriptEntry or not
JsonParse(line) ==
    IF ParseEntry(line).ok THEN ParseEntry(line) ELSE ParseMetadata(line)

-----------------------------------------------------------------------------
(* SessionManager: the pure part of each operation.                        *)

Put(f, k, v) == [x \in DOMAIN f \cup {k} |-> IF x = k THEN v ELSE f[x]]
Remove(f, k) == [x \in DOMAIN f \ {k} |-> f[x]]

NotFound == "Session not found"
ENOENT == "ENOENT"

\* content.split('\n').filter(line => line.trim().length > 0)
NonBlankLines(content) == SelectSeq(SplitLines(content), LAMBDA l : Trim(l) # <<>>)

\* the log create() writes
\* a create that writes the metadata without the '#' before it
createLogWithoutHash(id, clock) ==
    StringifyMetadata([id |-> UUID(id), createdAt |-> clock, version |-> 1]) \o <<NL>>

createLog(id, clock) ==
    <<HASH>> \o StringifyMetadata([id |-> UUID(id), createdAt |-> clock, version |-> 1])
        \o <<NL>>

\* the entry appendMessage builds and the line it appends
buildEntry(n, clock, message) ==
    [id |-> UUID(n), timestamp |-> clock, role |-> message.role,
     content |-> message.content, toolCall |-> message.toolCall,
     toolResult |-> message.toolResult]

appendLine(entry) == StringifyEntry(entry) \o <<NL>>

\* a getHistory that keeps only the lines that deserialize to an entry
getHistoryTyped(content) ==
    LET lines == NonBlankLines(content)
        kept == SelectSeq(lines, LAMBDA l : ~StartsWithHash(l) /\ ParseEntry(l).ok)
    IN  [i \in 1..Len(kept) |-> ParseEntry(kept[i]).val]

\* the loop of getHistory over the lines of the log
getHistory(content) ==
    LET lines == NonBlankLines(content)
        kept == SelectSeq(lines, LAMBDA l : ~StartsWithHash(l) /\ JsonParse(l).ok)
    IN  [i \in 1..Len(kept) |-> JsonParse(kept[i]).val]

\* the loop of load over the lines of the log
RECURSIVE loadScan(_, _)
loadScan(lines, st) ==
    IF lines = <<>> THEN st
    ELSE LET line == Head(lines)
             m == ParseMetadata(Tail(line))
             e == JsonParse(line)
         IN  loadScan(Tail(lines),
                 IF StartsWithHash(line)
                 THEN IF m.ok
                      THEN [st EXCEPT !.createdAt = m.val.createdAt,
                                      !.updatedAt = IF st.updatedAt = 0
                                                    THEN m.val.createdAt
                                                    ELSE st.updatedAt]
                      ELSE st
                 ELSE IF e.ok
                      THEN [st EXCEPT !.messageCount = @ + 1,
                                      !.updatedAt =
                                          IF /\ "timestamp" \in DOMAIN e.val
                                             /\ e.val.timestamp > @
                                          THEN e.val.timestamp ELSE @]
                      ELSE st)

load(sessionId, content, clock) ==
    LET st == loadScan(NonBlankLines(content),
                       [createdAt |-> 0, updatedAt |-> 0, messageCount |-> 0])
    IN  [id |-> sessionId,
         createdAt |-> IF st.createdAt = 0 THEN clock ELSE st.createdAt,
         updatedAt |-> IF st.createdAt = 0 THEN clock ELSE st.updatedAt,
         messageCount |-> st.messageCount]

\* the metadata line test of repair: JSON.parse(trimmed.slice(1)) does not throw
metadataParses(trimmed) == ParseMetadata(Tail(trimmed)).ok

\* a loop that counts a metadata line that does not parse among the lost
RECURSIVE repairScanCountingMetadata(_, _)
repairScanCountingMetadata(lines, st) ==
    IF lines = <<>> THEN st
    ELSE LET trimmed == Trim(Head(lines))
         IN  repairScanCountingMetadata(Tail(lines),
                 IF trimmed = <<>> THEN st
                 ELSE IF StartsWithHash(trimmed)
                 THEN IF metadataParses(trimmed)
                      THEN [st EXCEPT !.validLines = Append(@, trimmed),
                                      !.metadata = TRUE]
                      ELSE [st EXCEPT !.entriesLost = @ + 1]
                 ELSE IF JsonParse(trimmed).ok
                      THEN [st EXCEPT !.validLines = Append(@, trimmed),
                                      !.entriesRecovered = @ + 1]
                      ELSE [st EXCEPT !.entriesLost = @ + 1])

\* the loop of repair over the lines of the log
RECURSIVE repairScan(_, _)
repairScan(lines, st) ==
    IF lines = <<>> THEN st
    ELSE LET trimmed == Trim(Head(lines))
         IN  repairScan(Tail(lines),
                 IF trimmed = <<>> THEN st
                 ELSE IF StartsWithHash(trimmed)
                 THEN IF metadataParses(trimmed)
                      THEN [st EXCEPT !.validLines = Append(@, trimmed),
                                      !.metadata = TRUE]
                      ELSE st
                 ELSE IF JsonParse(trimmed).ok
                      THEN [st EXCEPT !.validLines = Append(@, trimmed),
                                      !.entriesRecovered = @ + 1]
                      ELSE [st EXCEPT !.entriesLost = @ + 1])

repairRead(content) ==
    repairScan(SplitLines(content),
               [validLines |-> <<>>, metadata |-> FALSE,
                entriesRecovered |-> 0, entriesLost |-> 0])

\* validLines.unshift of the header built from the file's birthtime
syntheticHeader(id, birthtime) ==
    <<HASH>> \o StringifyMetadata([id |-> UUID(id), createdAt |-> birthtime, version |-> 1])

\* a log written without the newline after its last line
repairedContentBare(validLines) == JoinLines(validLines)

repairedContent(validLines) == JoinLines(validLines) \o <<NL>>

-----------------------------------------------------------------------------
(* SessionManager: the calls, one action per step between two awaits.      *)

Callers == {"c1", "c2"}

\* a session id no create() has returned
NoSession == 0

Idle == [op |-> "idle", pc |-> "idle", id |-> NoSession, message |-> <<>>,
         entry |-> <<>>, scan |-> <<>>]

NoReturn == [caller |-> "", op |-> "none", id |-> NoSession, err |-> "", val |-> <<>>,
             input |-> <<>>]

Threw(p, op, id, err) ==
    [caller |-> p, op |-> op, id |-> id, err |-> err, val |-> <<>>, input |-> <<>>]

Returns(p, op, id, val, input) ==
    [caller |-> p, op |-> op, id |-> id, err |-> "", val |-> <<val>>, input |-> input]

\* TranscriptEntry.role
Role == [user |-> <<"user">>, assistant |-> <<"assistant">>, tool |-> <<"tool">>]

\* the messages callers append: plain text, text with the characters the
\* log format gives a meaning to, a tool call and a tool result
Messages ==
    { [role |-> Role.user, content |-> <<"h", "i">>, toolCall |-> <<>>, toolResult |-> <<>>],
      [role |-> Role.assistant, content |-> <<HASH, NL, Q, BS, "n", SP>>,
       toolCall |-> <<[id |-> <<"c">>, name |-> <<"r">>, arguments |-> <<"{", Q, "}">>]>>,
       toolResult |-> <<>>],
      [role |-> Role.tool, content |-> <<>>, toolCall |-> <<>>,
       toolResult |-> <<[callId |-> <<"c">>, success |-> TRUE, output |-> <<NL, "o">>]>>] }

\* the ids a caller may pass: every id create() returned, and one it never did
CallIds == DOMAIN returned \cup {NoSession}

\* the appendMessage calls that have yet to draw their entry's id
Appending == {q \in Callers : procs[q].op = "appendMessage" /\ procs[q].pc = "checked"}

\* Date.now(): the clock never goes back; a read falls in the millisecond of
\* the read before it or in the latest one
Clock == {now, MaxClock}

\* create(): randomUUID, Date.now, writeFile of the header, return
Create(p, t) ==
    /\ procs[p] = Idle
    /\ uuids < MaxUuids
    /\ now' = t
    /\ LET id == uuids + 1
       IN  /\ uuids' = id
           /\ files' = Put(files, id, createLog(id, t))
           /\ birth' = Put(birth, id, IF id \in DOMAIN files THEN birth[id] ELSE t)
           /\ returned' = Put(returned, id, <<>>)
           /\ ret' = Returns(p, "create", id,
                             [id |-> id, createdAt |-> t, updatedAt |-> t,
                              messageCount |-> 0], <<>>)
    /\ UNCHANGED <<procs, deleteCalled, faults>>

\* an operation that goes on without the access() test
AccessUnchecked(p, op, id, message) ==
    /\ procs[p] = Idle
    /\ procs' = [procs EXCEPT ![p] =
           [Idle EXCEPT !.op = op, !.pc = "checked", !.id = id, !.message = message]]
    /\ ret' = NoReturn
    /\ UNCHANGED <<files, birth, now, uuids, returned, faults>>

\* the access() every operation but create starts with
Access(p, op, id, message) ==
    /\ procs[p] = Idle
    /\ IF id \in DOMAIN files
       THEN /\ procs' = [procs EXCEPT ![p] =
                   [Idle EXCEPT !.op = op, !.pc = "checked", !.id = id,
                                !.message = message]]
            /\ ret' = NoReturn
       ELSE /\ ret' = Threw(p, op, id, NotFound)
            /\ procs' = procs
    /\ UNCHANGED <<files, birth, now, uuids, returned, faults>>

\* appendMessage: access
AppendStart(p, id, message) ==
    /\ uuids + Cardinality(Appending) < MaxUuids
    /\ Access(p, "appendMessage", id, <<message>>)
    /\ UNCHANGED deleteCalled

\* appendMessage: the entry is built and appendFile is issued
AppendBuild(p, t) ==
    /\ procs[p].op = "appendMessage" /\ procs[p].pc = "checked"
    /\ uuids' = uuids + 1
    /\ now' = t
    /\ procs' = [procs EXCEPT ![p].pc = "writing",
                              ![p].entry = <<buildEntry(uuids + 1, t, procs[p].message[1])>>]
    /\ UNCHANGED <<files, birth, ret, returned, deleteCalled, faults>>

\* appendMessage: appendFile writes the line (flag 'a' creates the file) and
\* the call returns the entry
AppendWrite(p) ==
    /\ procs[p].op = "appendMessage" /\ procs[p].pc = "writing"
    /\ LET id == procs[p].id
           entry == procs[p].entry[1]
           old == IF id \in DOMAIN files THEN files[id] ELSE <<>>
       IN  /\ files' = Put(files, id, old \o appendLine(entry))
           /\ birth' = Put(birth, id, IF id \in DOMAIN files THEN birth[id] ELSE now)
           /\ returned' = [returned EXCEPT ![id] = Append(@, entry)]
           /\ ret' = Returns(p, "appendMessage", id, entry, <<>>)
    /\ procs' = [procs EXCEPT ![p] = Idle]
    /\ UNCHANGED <<now, uuids, deleteCalled, faults>>

\* getHistory: access
GetHistoryStart(p, id) ==
    /\ Access(p, "getHistory", id, <<>>)
    /\ UNCHANGED deleteCalled

\* getHistory: readFile and the loop over the lines
GetHistoryRead(p) ==
    /\ procs[p].op = "getHistory" /\ procs[p].pc = "checked"
    /\ LET id == procs[p].id
       IN  ret' = IF id \in DOMAIN files
                  THEN Returns(p, "getHistory", id, getHistory(files[id]), files[id])
                  ELSE Threw(p, "getHistory", id, ENOENT)
    /\ procs' = [procs EXCEPT ![p] = Idle]
    /\ UNCHANGED <<files, birth, now, uuids, returned, deleteCalled, faults>>

\* load: access
LoadStart(p, id) ==
    /\ Access(p, "load", id, <<>>)
    /\ UNCHANGED deleteCalled

\* load: readFile and the loop over the lines
LoadRead(p, t) ==
    /\ procs[p].op = "load" /\ procs[p].pc = "checked"
    /\ LET id == procs[p].id
       IN  /\ ret' = IF id \in DOMAIN files
                     THEN Returns(p, "load", id, load(id, files[id], t), files[id])
                     ELSE Threw(p, "load", id, ENOENT)
           \* the clock is read only when no metadata line gave createdAt
           /\ now' = IF id \in DOMAIN files /\ load(id, files[id], 0).createdAt = 0
                     THEN t ELSE now
           /\ t # now => id \in DOMAIN files /\ load(id, files[id], 0).createdAt = 0
    /\ procs' = [procs EXCEPT ![p] = Idle]
    /\ UNCHANGED <<files, birth, uuids, returned, deleteCalled, faults>>

\* repair: access
RepairStart(p, id) ==
    /\ Access(p, "repair", id, <<>>)
    /\ UNCHANGED deleteCalled

\* repair: readFile and the loop over the lines
RepairRead(p) ==
    /\ procs[p].op = "repair" /\ procs[p].pc = "checked"
    /\ LET id == procs[p].id
       IN  IF id \in DOMAIN files
           THEN /\ procs' = [procs EXCEPT
                       ![p].pc = IF repairRead(files[id]).metadata
                                 THEN "writing" ELSE "stat",
                       ![p].scan = <<repairRead(files[id]), files[id]>>]
                /\ ret' = ret
           ELSE /\ procs' = [procs EXCEPT ![p] = Idle]
                /\ ret' = Threw(p, "repair", id, ENOENT)
    /\ UNCHANGED <<files, birth, now, uuids, returned, deleteCalled, faults>>

\* repair: no metadata line parsed, so stat() and a header from the birthtime
RepairStat(p) ==
    /\ procs[p].op = "repair" /\ procs[p].pc = "stat"
    /\ LET id == procs[p].id
           st == procs[p].scan[1]
       IN  IF id \in DOMAIN files
           THEN /\ procs' = [procs EXCEPT
                       ![p].pc = "writing",
                       ![p].scan[1] = [st EXCEPT !.validLines =
                                          <<syntheticHeader(id, birth[id])>> \o @]]
                /\ ret' = ret
           ELSE /\ procs' = [procs EXCEPT ![p] = Idle]
                /\ ret' = Threw(p, "repair", id, ENOENT)
    /\ UNCHANGED <<files, birth, now, uuids, returned, deleteCalled, faults>>

\* repair: writeFile of the valid lines, and the report
RepairWrite(p) ==
    /\ procs[p].op = "repair" /\ procs[p].pc = "writing"
    /\ LET id == procs[p].id
           st == procs[p].scan[1]
       IN  /\ files' = Put(files, id, repairedContent(st.validLines))
           /\ birth' = Put(birth, id, IF id \in DOMAIN files THEN birth[id] ELSE now)
           /\ ret' = Returns(p, "repair", id,
                          [repaired |-> st.entriesLost > 0,
                           entriesRecovered |-> st.entriesRecovered,
                           entriesLost |-> st.entriesLost],
                          procs[p].scan[2])
    /\ procs' = [procs EXCEPT ![p] = Idle]
    /\ UNCHANGED <<now, uuids, returned, deleteCalled, faults>>

\* delete: access
DeleteStart(p, id) ==
    /\ Access(p, "delete", id, <<>>)
    /\ deleteCalled' = deleteCalled \cup {id}

\* delete: unlink
DeleteUnlink(p) ==
    /\ procs[p].op = "delete" /\ procs[p].pc = "checked"
    /\ LET id == procs[p].id
       IN  IF id \in DOMAIN files
           THEN /\ files' = Remove(files, id)
                /\ birth' = Remove(birth, id)
                /\ ret' = Returns(p, "delete", id, TRUE, <<>>)
           ELSE /\ UNCHANGED <<files, birth>>
                /\ ret' = Threw(p, "delete", id, ENOENT)
    /\ procs' = [procs EXCEPT ![p] = Idle]
    /\ UNCHANGED <<now, uuids, returned, deleteCalled, faults>>

\* where a write of the line may stop: after its first character, in the
\* middle of it, and just before its newline
CrashCuts(line) == {1, Len(line) \div 2, Len(line) - 1}

\* the process dies while appendFile is writing: a proper, non-empty prefix of
\* the line is on disk, every call in flight is gone, the next process starts
Crash(p) ==
    /\ faults < MaxFaults
    /\ procs[p].op = "appendMessage" /\ procs[p].pc = "writing"
    /\ procs[p].id \in DOMAIN files
    /\ LET id == procs[p].id
           line == appendLine(procs[p].entry[1])
       IN  \E k \in CrashCuts(line) :
               files' = [files EXCEPT ![id] = @ \o SubSeq(line, 1, k)]
    /\ procs' = [q \in Callers |-> Idle]
    /\ ret' = NoReturn
    /\ faults' = faults + 1
    /\ UNCHANGED <<birth, now, uuids, returned, deleteCalled>>

\* lines that do not deserialize, as another program may leave them in a log:
\* an object cut short and a metadata line cut short
Garbage == { <<"{", Key.id, Q, "x">>, <<HASH, "{", Key.id>> }

\* another program appends a line to the log
ForeignAppend(id, line) ==
    /\ faults < MaxFaults
    /\ id \in DOMAIN files
    /\ files' = [files EXCEPT ![id] = @ \o line \o <<NL>>]
    /\ faults' = faults + 1
    /\ UNCHANGED <<birth, now, uuids, procs, ret, returned, deleteCalled>>

\* another program damages the first line of the log
ForeignClobber(id) ==
    /\ faults < MaxFaults
    /\ id \in DOMAIN files
    /\ files[id] # <<>>
    /\ files' = [files EXCEPT ![id] = <<"x">> \o Tail(@)]
    /\ faults' = faults + 1
    /\ UNCHANGED <<birth, now, uuids, procs, ret, returned, deleteCalled>>

-----------------------------------------------------------------------------
(* Specifications of the transcript store.                                 *)

\* a SessionManager on an empty sessions directory, an empty BM25Index, and
\* no call of compact
Init ==
    /\ files = <<>>
    /\ birth = <<>>
    /\ now = 1
    /\ uuids = 0
    /\ procs = [p \in Callers |-> Idle]
    /\ ret = NoReturn
    /\ returned = <<>>
    /\ deleteCalled = {}
    /\ faults = 0
    /\ documents = <<>>
    /\ documentFrequency = <<>>
    /\ avgDocLength = <<0, 1>>
    /\ history = <<>>
    /\ maxTokens = 0
    /\ diskOk = TRUE
    /\ notes = <<>>
    /\ compacted = <<>>
    /\ bootstrapCache = <<>>
    /\ clients = <<>>
    /\ inFlightRequests = <<>>
    /\ isShuttingDown = FALSE
    /\ httpServer = "null"
    /\ stopping = <<>>
    /\ aborted = {}
    /\ cachedToken = <<>>
    /\ authStore = <<>>

AppendMessage(p, ids, messages, times) ==
    \/ \E id \in ids, m \in messages : AppendStart(p, id, m)
    \/ \E t \in times : AppendBuild(p, t)
    \/ AppendWrite(p)

GetHistory(p, ids) ==
    \/ \E id \in ids : GetHistoryStart(p, id)
    \/ GetHistoryRead(p)

Load(p, ids) ==
    \/ \E id \in ids : LoadStart(p, id)
    \/ \E t \in Clock : LoadRead(p, t)

Repair(p, ids) ==
    \/ \E id \in ids : RepairStart(p, id)
    \/ RepairRead(p)
    \/ RepairStat(p)
    \/ RepairWrite(p)

Delete(p, ids) ==
    \/ \E id \in ids : DeleteStart(p, id)
    \/ DeleteUnlink(p)

\* one caller, each call finished before the next starts
NextSerial ==
    /\ \/ \E t \in Clock : Create("c1", t)
       \/ AppendMessage("c1", CallIds, Messages, Clock)
       \/ GetHistory("c1", CallIds)
       \/ Load("c1", CallIds)
       \/ Repair("c1", CallIds)
       \/ Delete("c1", CallIds)
    /\ UNCHANGED <<indexVars, compactVars, serviceVars>>

Spec == Init /\ [][NextSerial]_vars

\* the state after one create(): a session with an empty transcript
InitOneSession ==
    /\ files = (1 :> createLog(1, 1))
    /\ birth = (1 :> 1)
    /\ now = 1
    /\ uuids = 1
    /\ procs = [p \in Callers |-> Idle]
    /\ ret = NoReturn
    /\ returned = (1 :> <<>>)
    /\ deleteCalled = {}
    /\ faults = 0
    /\ documents = <<>>
    /\ documentFrequency = <<>>
    /\ avgDocLength = <<0, 1>>
    /\ history = <<>>
    /\ maxTokens = 0
    /\ diskOk = TRUE
    /\ notes = <<>>
    /\ compacted = <<>>
    /\ bootstrapCache = <<>>
    /\ clients = <<>>
    /\ inFlightRequests = <<>>
    /\ isShuttingDown = FALSE
    /\ httpServer = "null"
    /\ stopping = <<>>
    /\ aborted = {}
    /\ cachedToken = <<>>
    /\ authStore = <<>>

\* one session and one caller at a time, in a process that may die while it
\* appends, on a log another program may write to
NextFaults ==
    /\ \/ AppendMessage("c1", DOMAIN returned,
                        {m \in Messages : m.role # Role.user}, {now})
       \/ GetHistory("c1", DOMAIN returned)
       \/ Repair("c1", DOMAIN returned)
       \/ Crash("c1")
       \/ \E id \in DOMAIN files, line \in Garbage : ForeignAppend(id, line)
       \/ \E id \in DOMAIN files : ForeignClobber(id)
    /\ UNCHANGED <<indexVars, compactVars, serviceVars>>

SpecFaults == InitOneSession /\ [][NextFaults]_vars

\* two callers on one session, their calls interleaving at every await
NextConcurrent ==
    /\ \E p \in Callers :
          \/ AppendMessage(p, DOMAIN returned,
                           {CHOOSE m \in Messages : m.role = Role.user}, Clock)
          \/ GetHistory(p, DOMAIN returned)
          \/ Load(p, DOMAIN returned)
          \/ Repair(p, DOMAIN returned)
          \/ Delete(p, DOMAIN returned)
    /\ UNCHANGED <<indexVars, compactVars, serviceVars>>

SpecConcurrent == InitOneSession /\ [][NextConcurrent]_vars

-----------------------------------------------------------------------------
(* Claims about the transcript store.                                      *)

RECURSIVE IsSubsequence(_, _)
IsSubsequence(a, b) ==
    IF a = <<>> THEN TRUE
    ELSE IF b = <<>> THEN FALSE
    ELSE IF Head(a) = Head(b) THEN IsSubsequence(Tail(a), Tail(b))
    ELSE IsSubsequence(a, Tail(b))

\* C1: with one caller and no other writer, getHistory(id) returns exactly the
\* entries the appendMessage calls on id returned, in call order, every field
\* (id, role, content, timestamp, toolCall, toolResult) equal to what was appended.
TranscriptRoundTrip ==
    (ret.op = "getHistory" /\ ret.err = "") => ret.val[1] = returned[ret.id]

\* getHistory returned two entries, one with a tool call and a content holding
\* a newline, a quote and a backslash, the other with a tool result
TranscriptRoundTripWitness ==
    /\ ret.op = "getHistory" /\ ret.err = ""
    /\ Len(ret.val[1]) = 2
    /\ \E i \in 1..2 : /\ ret.val[1][i].toolCall # <<>>
                       /\ \E k \in DOMAIN ret.val[1][i].content :
                              ret.val[1][i].content[k] = NL
    /\ \E i \in 1..2 : ret.val[1][i].toolResult # <<>>

\* C2: after a crash left a partial last line in a log, every entry whose
\* appendMessage call returned, before the crash or after it, is among the
\* entries of getHistory, in append order.
CompletedAppendsSurviveCrash ==
    \A id \in DOMAIN files : IsSubsequence(returned[id], getHistory(files[id]))

\* the lines of a log as repair sees them: trimmed, the blank ones left out
TrimmedLines(content) ==
    LET lines == SplitLines(content)
    IN  SelectSeq([i \in 1..Len(lines) |-> Trim(lines[i])], LAMBDA l : l # <<>>)

EntryLines(content) == SelectSeq(TrimmedLines(content), LAMBDA l : ~StartsWithHash(l))

Deserializes(l) == IF StartsWithHash(l) THEN ParseMetadata(Tail(l)).ok ELSE JsonParse(l).ok

ValidEntries(content) ==
    LET valid == SelectSeq(EntryLines(content), LAMBDA l : JsonParse(l).ok)
    IN  [i \in 1..Len(valid) |-> JsonParse(valid[i]).val]

RepairReturned == ret.op = "repair" /\ ret.err = ""

AppendsNeverOverlap ==
    \A p, q \in Callers :
        (/\ p # q
         /\ procs[p].op = "appendMessage" /\ procs[q].op = "appendMessage"
         /\ procs[p].id = procs[q].id)
        => ~(procs[p].pc = "writing" /\ procs[q].pc = "writing")

\* the step in which caller p calls an operation other than create
CallStep(p) ==
    /\ procs[p] = Idle
    /\ \/ procs'[p] # Idle
       \/ ret' # ret /\ ret'.caller = p /\ ret'.op # "create"

CalledId(p) == IF procs'[p] # Idle THEN procs'[p].id ELSE ret'.id

ReturnedEntriesStay ==
    \A id \in DOMAIN returned \ deleteCalled :
        /\ id \in DOMAIN files
        /\ IsSubsequence(returned[id], getHistory(files[id]))

\* the sessions a delete removed: create returned them and they have no log
Deleted == DOMAIN returned \ DOMAIN files

\* C21: after delete(id) succeeded the log stays removed, and every later
\* load, getHistory, appendMessage, repair and delete on that id throws
\* not-found
DeletedStaysDeleted ==
    [][\A id \in Deleted :
          /\ id \notin DOMAIN files'
          /\ \A p \in Callers :
                 (CallStep(p) /\ CalledId(p) = id)
                 => procs'[p] = Idle /\ ret'.err = NotFound]_vars

\* C31: the write of an appendMessage lands in a log that exists, or the
\* call throws not-found and leaves no log; and when delete(id) was called
\* and no call is in flight any more, id has no log
AppendNeverCreatesLog ==
    [][/\ \A p \in Callers :
              (procs[p].op = "appendMessage" /\ procs[p].pc = "writing"
                   /\ procs'[p] = Idle)
              => \/ procs[p].id \in DOMAIN files
                 \/ ret'.err = NotFound /\ procs[p].id \notin DOMAIN files'
       /\ (\A p \in Callers : procs'[p] = Idle) =>
              \A id \in deleteCalled' : id \notin DOMAIN files']_vars

\* C22: create writes a log whose only line is the metadata header and
\* returns a Session with messageCount 0 and updatedAt = createdAt; on a log
\* nothing was appended to, load returns the id and createdAt create returned
\* with messageCount 0, and getHistory returns the empty list
NewSessionIsEmpty ==
    /\ (ret.op = "create" /\ ret.err = "") =>
           LET session == ret.val[1]
               lines   == NonBlankLines(files[ret.id])
           IN  /\ session.id = ret.id
               /\ session.messageCount = 0
               /\ session.updatedAt = session.createdAt
               /\ Len(lines) = 1 /\ StartsWithHash(lines[1])
               /\ ParseMetadata(Tail(lines[1])) =
                      [ok |-> TRUE,
                       val |-> [id |-> UUID(ret.id), createdAt |-> session.createdAt,
                                version |-> 1]]
               /\ birth[ret.id] = session.createdAt
    /\ (ret.op = "load" /\ ret.err = "" /\ returned[ret.id] = <<>>) =>
           ret.val[1] = [id |-> ret.id, createdAt |-> birth[ret.id],
                         updatedAt |-> birth[ret.id], messageCount |-> 0]
    /\ (ret.op = "getHistory" /\ ret.err = "" /\ returned[ret.id] = <<>>) =>
           ret.val[1] = <<>>

\* load returned on the second session's new log
NewSessionIsEmptyWitness ==
    /\ ret.op = "load" /\ ret.err = ""
    /\ ret.id = 2 /\ returned[2] = <<>>
    /\ birth[2] = MaxClock

\* C25: the clock never goes backwards, and the entries of every log stand in
\* the order of the timestamps appendMessage gave them, none before an
\* earlier one, also when the appendMessage calls overlap
LogIsInTimestampOrder ==
    \A id \in DOMAIN files :
        LET entries == getHistory(files[id])
        IN  \A i, j \in DOMAIN entries :
                i < j => entries[i].timestamp <= entries[j].timestamp

-----------------------------------------------------------------------------
(* BM25Index.  documents is the Map in insertion order; avgDocLength is the *)
(* quotient <<total length, number of documents>>, <<0, 1>> for zero.       *)

Range(f) == {f[i] : i \in DOMAIN f}

\* the characters tokenize tells apart: a-z, the lower case of A-Z, and the
\* class [a-z0-9]
Alphabet ==
    LET upper == <<"A", "B", "C", "D", "E", "F", "G", "H", "I", "J", "K", "L", "M",
                   "N", "O", "P", "Q", "R", "S", "T", "U", "V", "W", "X", "Y", "Z">>
        lower == <<"a", "b", "c", "d", "e", "f", "g", "h", "i", "j", "k", "l", "m",
                   "n", "o", "p", "q", "r", "s", "t", "u", "v", "w", "x", "y", "z">>
    IN  [lower |-> lower,
         lowerOf |-> [c \in Range(upper) |->
                         lower[CHOOSE i \in DOMAIN upper : upper[i] = c]],
         alnum |-> Range(lower)
                   \cup {"0", "1", "2", "3", "4", "5", "6", "7", "8", "9"}]

\* String.prototype.toLowerCase
ToLowerChar(c) == IF c \in DOMAIN Alphabet.lowerOf THEN Alphabet.lowerOf[c] ELSE c

ToLowerCase(s) == [i \in 1..Len(s) |-> ToLowerChar(s[i])]

\* [a-z0-9]
IsAlnum(c) == c \in Alphabet.alnum

\* tokenize: lowercase, split on runs of other characters, keep terms longer than 1
tokenize(text) ==
    LET low == ToLowerCase(text)
        pieces == SplitOn(low, {c \in Range(low) : ~IsAlnum(c)})
    IN  SelectSeq(pieces, LAMBDA term : Len(term) > 1)

\* the termFrequency map addDocument counts
termFrequency(terms) ==
    [t \in Range(terms) |-> Cardinality({i \in DOMAIN terms : terms[i] = t})]

\* a removal that deletes the counter of every term of the document
dropContributionDeleting(df, docTerms) ==
    [t \in DOMAIN df \ DOMAIN docTerms |-> df[t]]

\* a document's contribution taken out of documentFrequency: the counter of
\* each of its terms goes down by one, and is deleted when it was 1 or less
dropContribution(df, docTerms) ==
    LET kept == {t \in DOMAIN df : ~(t \in DOMAIN docTerms /\ df[t] <= 1)}
    IN  [t \in kept |-> IF t \in DOMAIN docTerms THEN df[t] - 1 ELSE df[t]]

\* a document's contribution put into documentFrequency
addContribution(df, tf) ==
    [t \in DOMAIN df \cup DOMAIN tf |->
        (IF t \in DOMAIN df THEN df[t] ELSE 0) + (IF t \in DOMAIN tf THEN 1 ELSE 0)]

HasDocument(docs, id) == \E i \in DOMAIN docs : docs[i].id = id
GetDocument(docs, id) == docs[CHOOSE i \in DOMAIN docs : docs[i].id = id]

\* Map.set: a new key goes last, a key already present keeps its place
SetDocument(docs, doc) ==
    IF HasDocument(docs, doc.id)
    THEN [i \in DOMAIN docs |-> IF docs[i].id = doc.id THEN doc ELSE docs[i]]
    ELSE Append(docs, doc)

\* Map.delete
DeleteDocument(docs, id) == SelectSeq(docs, LAMBDA d : d.id # id)

updateAvgDocLength(docs) ==
    LET RECURSIVE TotalLength(_)
        TotalLength(ds) ==
            IF ds = <<>> THEN 0 ELSE Head(ds).length + TotalLength(Tail(ds))
    IN  IF Len(docs) = 0 THEN <<0, 1>> ELSE <<TotalLength(docs), Len(docs)>>

\* addDocument, as a function of the index before it
\* an addDocument that leaves the old document's contribution in place
addDocumentOnTop(index, id, path, content, timestamp) ==
    LET terms == tokenize(content)
        tf == termFrequency(terms)
        docs == SetDocument(index.documents,
                            [id |-> id, path |-> path, content |-> content,
                             timestamp |-> timestamp, terms |-> tf,
                             length |-> Len(terms)])
    IN  [documents |-> docs,
         documentFrequency |-> addContribution(index.documentFrequency, tf),
         avgDocLength |-> updateAvgDocLength(docs)]

addDocument(index, id, path, content, timestamp) ==
    LET terms == tokenize(content)
        tf == termFrequency(terms)
        df0 == IF HasDocument(index.documents, id)
               THEN dropContribution(index.documentFrequency,
                                     GetDocument(index.documents, id).terms)
               ELSE index.documentFrequency
        docs == SetDocument(index.documents,
                            [id |-> id, path |-> path, content |-> content,
                             timestamp |-> timestamp, terms |-> tf,
                             length |-> Len(terms)])
    IN  [documents |-> docs,
         documentFrequency |-> addContribution(df0, tf),
         avgDocLength |-> updateAvgDocLength(docs)]

\* removeDocument, as a function of the index before it
removeDocument(index, id) ==
    IF ~HasDocument(index.documents, id) THEN index
    ELSE LET docs == DeleteDocument(index.documents, id)
         IN  [documents |-> docs,
              documentFrequency |->
                  dropContribution(index.documentFrequency,
                                   GetDocument(index.documents, id).terms),
              avgDocLength |-> updateAvgDocLength(docs)]

Index == [documents |-> documents, documentFrequency |-> documentFrequency,
          avgDocLength |-> avgDocLength]

SetIndex(index) ==
    /\ documents' = index.documents
    /\ documentFrequency' = index.documentFrequency
    /\ avgDocLength' = index.avgDocLength

DocIds == {<<"d1">>, <<"d2">>, <<"d3">>}

\* contents with a repeated term, terms in two cases, terms shared between
\* documents, one-character words, and no term at all
DocContents ==
    { <<"G", "o", " ", "g", "o", " ", "a">>,
      <<"g", "o", "-", "r", "s", "!">>,
      <<"R", "S", ",", "x", "1", " ", "r", "s">>,
      <<"a", " ", "?">> }

IndexAdd(id, content, t) ==
    /\ SetIndex(addDocument(Index, id, <<"/">> \o id, content, t))
    /\ UNCHANGED <<sessionVars, compactVars, serviceVars>>

IndexRemove(id) ==
    /\ SetIndex(removeDocument(Index, id))
    /\ UNCHANGED <<sessionVars, compactVars, serviceVars>>

\* clear()
IndexClear ==
    /\ documents' = <<>>
    /\ documentFrequency' = <<>>
    /\ avgDocLength' = <<0, 1>>
    /\ UNCHANGED <<sessionVars, compactVars, serviceVars>>

NextIndex ==
    \/ \E id \in DocIds, content \in DocContents, t \in {1, MaxClock} :
           IndexAdd(id, content, t)
    \/ \E id \in DocIds : IndexRemove(id)
    \/ IndexClear

SpecIndex == Init /\ [][NextIndex]_vars

-----------------------------------------------------------------------------
(* Claims about the index.                                                 *)

\* the indexed documents whose content, tokenized again, holds the term
DocumentsWith(term) ==
    {i \in DOMAIN documents : term \in Range(tokenize(documents[i].content))}

IndexedTerms == UNION {Range(tokenize(documents[i].content)) : i \in DOMAIN documents}

\* C3: after any sequence of addDocument, removeDocument and clear, the
\* documents have distinct ids, each term's document-frequency counter is the
\* number of indexed documents that contain the term, and no counter exists
\* for a term that no indexed document contains.
DocumentFrequencyInvariant ==
    /\ \A i, j \in DOMAIN documents : documents[i].id = documents[j].id => i = j
    /\ DOMAIN documentFrequency = IndexedTerms
    /\ \A term \in IndexedTerms :
           documentFrequency[term] = Cardinality(DocumentsWith(term))

\* three documents indexed, a term two of them share, a term only one has
DocumentFrequencyWitness ==
    /\ Len(documents) = 3
    /\ \E term \in DOMAIN documentFrequency : documentFrequency[term] = 2
    /\ \E term \in DOMAIN documentFrequency : documentFrequency[term] = 1
    /\ \E i \in DOMAIN documents : documents[i].terms = <<>>

\* C23: addDocument with an id that is already indexed leaves the number of
\* documents unchanged, and gives the documents (each id with its document),
\* the document-frequency counters and the average document length that
\* removeDocument(id) followed by addDocument of the new content gives
AddReplacesDocument ==
    \A id \in DocIds, content \in DocContents, t \in {1, MaxClock} :
        HasDocument(documents, id) =>
            LET replaced == addDocument(Index, id, <<"/">> \o id, content, t)
                readded  == addDocument(removeDocument(Index, id),
                                        id, <<"/">> \o id, content, t)
            IN  /\ Len(replaced.documents) = Len(documents)
                /\ Range(replaced.documents) = Range(readded.documents)
                /\ GetDocument(replaced.documents, id).content = content
                /\ replaced.documentFrequency = readded.documentFrequency
                /\ replaced.avgDocLength = readded.avgDocLength

\* three documents indexed, the first of them shares a term with another one
\* and does not hold the longest content
AddReplacesDocumentWitness ==
    /\ Len(documents) = 3
    /\ \E term \in DOMAIN documents[1].terms : documentFrequency[term] >= 2
    /\ \E content \in DocContents :
           Len(tokenize(content)) > documents[1].length

-----------------------------------------------------------------------------
(* BM25Index.search and MemorySystem.search.  A score is a whole number of *)
(* Log.unit-ths: Math.log is the table Log.ln, and a quotient is rounded    *)
(* down.  Time is counted in half-lives, so that ageMs / halfLifeMs is the  *)
(* whole number now - timestamp and the decay factor a power of two; a      *)
(* decayed score is a whole number of DecayUnit-ths.                        *)

\* Math.log: ln[k] is the logarithm of k, in Log.unit-ths
Log == [unit |-> 10000,
        ln |-> <<0, 6931, 10986, 13863, 16094, 17918, 19459, 20794>>]

\* DEFAULT_BM25_CONFIG, each parameter as <<numerator, denominator>>
DEFAULT_BM25_CONFIG == [k1 |-> <<12, 10>>, b |-> <<3, 4>>]

\* idf: Math.log((N - df + 0.5) / (df + 0.5) + 1), which is
\* ln(2N + 2) - ln(2df + 1)
idf(index, term) ==
    IF term \notin DOMAIN index.documentFrequency \/ Len(index.documents) = 0
    THEN 0
    ELSE Log.ln[2 * Len(index.documents) + 2]
             - Log.ln[2 * index.documentFrequency[term] + 1]

\* BM25Index.score: the sum over the query terms, a repeated term counted each
\* time, of idf * tfNorm; lengthNorm is the quotient lengthNum / lengthDen
RECURSIVE docScore(_, _, _)
docScore(index, doc, queryTerms) ==
    LET k1 == DEFAULT_BM25_CONFIG.k1
        b == DEFAULT_BM25_CONFIG.b
        avg == IF index.avgDocLength[1] = 0 THEN <<1, 1>> ELSE index.avgDocLength
        lengthNum == (b[2] - b[1]) * avg[1] + b[1] * doc.length * avg[2]
        lengthDen == b[2] * avg[1]
        termScore(term) ==
            IF term \notin DOMAIN doc.terms THEN 0
            ELSE (idf(index, term) * doc.terms[term] * (k1[1] + k1[2]) * lengthDen)
                     \div (doc.terms[term] * k1[2] * lengthDen + k1[1] * lengthNum)
    IN  IF queryTerms = <<>> THEN 0
        ELSE termScore(Head(queryTerms)) + docScore(index, doc, Tail(queryTerms))

\* Array.prototype.slice(0, end)
Slice(s, end) ==
    IF end < 0
    THEN SubSeq(s, 1, IF Len(s) + end < 0 THEN 0 ELSE Len(s) + end)
    ELSE SubSeq(s, 1, IF end > Len(s) THEN Len(s) ELSE end)

\* results.sort((a, b) => b.score - a.score): descending, and stable; a result
\* goes before the sorted results that follow it and have its score
RECURSIVE SortByScore(_)
SortByScore(rs) ==
    LET Insert(r, sorted) ==
            SelectSeq(sorted, LAMBDA x : x.score > r.score) \o <<r>>
                \o SelectSeq(sorted, LAMBDA x : x.score <= r.score)
    IN  IF rs = <<>> THEN <<>> ELSE Insert(Head(rs), SortByScore(Tail(rs)))

\* a search that keeps the documents whose score is 0
bm25SearchKeepingZero(index, query, limit) ==
    LET scored(queryTerms) ==
            [i \in DOMAIN index.documents |->
                [doc |-> index.documents[i],
                 score |-> docScore(index, index.documents[i], queryTerms)]]
    IN  IF tokenize(query) = <<>> THEN <<>>
        ELSE Slice(SortByScore(scored(tokenize(query))), limit)

\* BM25Index.search
bm25Search(index, query, limit) ==
    LET scored(queryTerms) ==
            [i \in DOMAIN index.documents |->
                [doc |-> index.documents[i],
                 score |-> docScore(index, index.documents[i], queryTerms)]]
    IN  IF tokenize(query) = <<>> THEN <<>>
        ELSE Slice(SortByScore(SelectSeq(scored(tokenize(query)),
                                         LAMBDA r : r.score > 0)),
                   limit)

\* the decayed score 1.0 of a document stamped with the current time
DecayUnit == Log.unit * 2 ^ (MaxClock - 1)

\* a factor that grows with the age of the document
applyTemporalGrowth(score, timestamp, t) == score * 2 ^ ((MaxClock - 1) + (t - timestamp))

\* score * Math.pow(0.5, ageMs / halfLifeMs), in DecayUnit-ths
applyTemporalDecay(score, timestamp, t) == score * 2 ^ ((MaxClock - 1) - (t - timestamp))

\* jaccardSimilarity, as <<intersection.size, union.size>>; WordSet is
\* new Set(text.toLowerCase().split(/\s+/))
jaccardSimilarity(text1, text2) ==
    LET Words(pieces) ==
            {pieces[i] : i \in {j \in DOMAIN pieces :
                                    pieces[j] # <<>> \/ j = 1 \/ j = Len(pieces)}}
        WordSet(text) == Words(SplitOn(ToLowerCase(text), {SP, NL}))
    IN  <<Cardinality(WordSet(text1) \cap WordSet(text2)),
          Cardinality(WordSet(text1) \cup WordSet(text2))>>

\* a quotient greater than another, both with a positive denominator
Greater(x, y) == x[1] * y[2] > y[1] * x[2]

\* the loop of mmrRerank, lambda at its default 0.7: mmrScore is
\* lambda * candidate.score - (1 - lambda) * maxSimilarity as a quotient of
\* (lambda[2] * DecayUnit)-ths, and bestIdx the first candidate no other
\* candidate's mmrScore exceeds
RECURSIVE mmrSelect(_, _, _)
mmrSelect(selected, remaining, limit) ==
    LET lambda == <<7, 10>>
        maxSimilarity(sims) == CHOOSE x \in sims : \A y \in sims : ~Greater(y, x)
        mmrScore(candidate, sim) ==
            <<lambda[1] * candidate.score * sim[2]
                  - (lambda[2] - lambda[1]) * DecayUnit * sim[1],
              sim[2]>>
        mmr(i) ==
            mmrScore(remaining[i],
                     maxSimilarity({jaccardSimilarity(remaining[i].content,
                                                      selected[k].content) :
                                        k \in DOMAIN selected}))
        bestIdx ==
            CHOOSE i \in DOMAIN remaining :
                /\ \A j \in DOMAIN remaining : ~Greater(mmr(j), mmr(i))
                /\ \A j \in 1..(i - 1) : Greater(mmr(i), mmr(j))
        Splice(idx) == SubSeq(remaining, 1, idx - 1) \o SubSeq(remaining, idx + 1, Len(remaining))
    IN  IF Len(selected) < limit /\ remaining # <<>>
        THEN mmrSelect(Append(selected, remaining[bestIdx]), Splice(bestIdx), limit)
        ELSE selected

mmrRerank(results, limit) ==
    IF Len(results) <= 1 THEN Slice(results, limit)
    ELSE mmrSelect(<<Head(results)>>, Tail(results), limit)

\* bm25Results.map(...): the decayed results
decayedResults(bm25Results, t) ==
    [i \in DOMAIN bm25Results |->
        [path |-> bm25Results[i].doc.path,
         content |-> bm25Results[i].doc.content,
         score |-> applyTemporalDecay(bm25Results[i].score,
                                      bm25Results[i].doc.timestamp, t),
         timestamp |-> bm25Results[i].doc.timestamp]]

\* MemorySystem.search once the index has answered, t the Date.now() it reads
search(bm25Results, limit, t) ==
    IF bm25Results = <<>> THEN <<>>
    ELSE mmrRerank(SortByScore(decayedResults(bm25Results, t)), limit)

-----------------------------------------------------------------------------
(* The calls of search.                                                    *)

\* contents with a repeated word, and a word only some documents have
SearchContents == { <<"a", "b", " ", "a", "b">>, <<"a", "b", " ", "c", "d">> }

\* a word of every document given three times, a word only some documents
\* have, and no word
Queries == { <<"A", "b", " ", "a", "b", " ", "a", "b">>, <<"c", "d">>, <<>> }

Limits == {-1, 0, 1, 3}

\* BM25Index.search(query, limit)
IndexSearch(query, limit) ==
    /\ ret' = Returns("c1", "bm25Search", NoSession, bm25Search(Index, query, limit),
                      [query |-> query, limit |-> limit, now |-> now])
    /\ UNCHANGED <<files, birth, now, uuids, procs, returned, deleteCalled, faults>>
    /\ UNCHANGED <<indexVars, compactVars, serviceVars>>

\* a search that moves the best document to the end of the Map
MemorySearchTouching(query, limit, t) ==
    /\ \E bm25Results \in {bm25Search(Index, query, limit * 2)} :
           /\ now' = IF bm25Results = <<>> THEN now ELSE t
           /\ ret' = Returns("c1", "search", NoSession, search(bm25Results, limit, now'),
                             [query |-> query, limit |-> limit, now |-> now'])
           /\ documents' = IF bm25Results = <<>> THEN documents
                           ELSE Append(DeleteDocument(documents, bm25Results[1].doc.id),
                                       bm25Results[1].doc)
    /\ UNCHANGED <<files, birth, uuids, procs, returned, deleteCalled, faults>>
    /\ UNCHANGED <<documentFrequency, avgDocLength, compactVars, serviceVars>>

\* MemorySystem.search(query, limit): the index is asked for 2 * limit results,
\* and Date.now() is read when it has one
MemorySearch(query, limit, t) ==
    /\ \E bm25Results \in {bm25Search(Index, query, limit * 2)} :
           /\ now' = IF bm25Results = <<>> THEN now ELSE t
           /\ ret' = Returns("c1", "search", NoSession, search(bm25Results, limit, now'),
                             [query |-> query, limit |-> limit, now |-> now'])
    /\ UNCHANGED <<files, birth, uuids, procs, returned, deleteCalled, faults>>
    /\ UNCHANGED <<indexVars, compactVars, serviceVars>>

\* the order in which walkDirectory hands the files to indexWorkspace
WalkOrder == << <<"d1">>, <<"d2">>, <<"d3">> >>

\* the workspace is indexed, file after file, then queries are answered
NextSearch ==
    \/ /\ ret = NoReturn
       /\ Len(documents) < Len(WalkOrder)
       /\ \E content \in SearchContents, timestamp \in {1, MaxClock} :
              IndexAdd(WalkOrder[Len(documents) + 1], content, timestamp)
    \/ \E query \in Queries, limit \in Limits : IndexSearch(query, limit)
    \/ \E query \in Queries, limit \in Limits, t \in Clock : MemorySearch(query, limit, t)

SpecSearch == Init /\ [][NextSearch]_vars

\* the candidates of a direct call of mmrRerank: two results of the same
\* content, two of another, with scores 1.0, 0.9, 0.8 and 0.8
RerankPool ==
    LET first  == CHOOSE c \in SearchContents : \A w \in Range(c) : w # "c"
        second == CHOOSE c \in SearchContents : c # first
    IN  { [path |-> <<"a.md">>, content |-> first, score |-> DecayUnit, timestamp |-> 1],
          [path |-> <<"b.md">>, content |-> first, score |-> (9 * DecayUnit) \div 10,
           timestamp |-> 1],
          [path |-> <<"c.md">>, content |-> second, score |-> (8 * DecayUnit) \div 10,
           timestamp |-> 1],
          [path |-> <<"d.md">>, content |-> second, score |-> (8 * DecayUnit) \div 10,
           timestamp |-> 1] }

\* lists of up to three different results of the pool, in any order
RerankInputs ==
    UNION { {results \in [1..n -> RerankPool] :
                \A i, j \in 1..n : results[i] = results[j] => i = j} : n \in 0..3 }

\* mmrRerank(results, limit), called as the tests call it
MmrRerank(results, limit) ==
    /\ ret' = Returns("c1", "mmrRerank", NoSession, mmrRerank(results, limit),
                      [results |-> results, limit |-> limit])
    /\ UNCHANGED <<files, birth, now, uuids, procs, returned, deleteCalled, faults>>
    /\ UNCHANGED <<indexVars, compactVars, serviceVars>>

NextRerank == \E results \in RerankInputs, limit \in Limits : MmrRerank(results, limit)

SpecRerank == Init /\ [][NextRerank]_vars

-----------------------------------------------------------------------------
(* Claims about search.                                                    *)

SearchReturned == ret.op = "search" /\ ret.err = ""

SearchResults == ret.val[1]

NonIncreasing(rs) == \A i \in 1..(Len(rs) - 1) : rs[i].score >= rs[i + 1].score

\* the candidates the last search re-ranked
Candidates ==
    decayedResults(bm25Search(Index, ret.input.query, ret.input.limit * 2), ret.input.now)

\* content similarity above 0.95
TooSimilar(x, y) ==
    Greater(jaccardSimilarity(x.content, y.content), <<95, 100>>)

\* C11: for any index, query and limit of 0 or more, the list MemorySystem.search
\* returns is in non-increasing order of the scores it reports and holds at
\* most limit results.
SearchResultsSorted ==
    (SearchReturned /\ ret.input.limit >= 0) =>
        /\ NonIncreasing(SearchResults)
        /\ Len(SearchResults) <= ret.input.limit

\* C38: for a limit of 0 or more, mmrRerank returns min(limit, number of
\* candidates) results, each a different member of the candidate list, and
\* returns a list of zero or one candidate unchanged
RerankReturnsLimitMany ==
    (ret.op = "mmrRerank" /\ ret.input.limit >= 0) =>
        LET results  == ret.input.results
            reranked == ret.val[1]
        IN  /\ Len(reranked) = IF ret.input.limit < Len(results)
                               THEN ret.input.limit ELSE Len(results)
            /\ \A i \in DOMAIN reranked : reranked[i] \in Range(results)
            /\ \A i, j \in DOMAIN reranked : reranked[i] = reranked[j] => i = j
            /\ Len(results) <= 1 => reranked = results

\* C12: in a list of more than one result returned by MemorySystem.search, no
\* result has content similarity above 0.95 to the result before it, unless
\* every candidate that was still to be chosen at that point was that similar
\* to the result before it.
AdjacentResultsDiffer ==
    (SearchReturned /\ Len(SearchResults) > 1) =>
        \A i \in 1..(Len(SearchResults) - 1) :
            TooSimilar(SearchResults[i], SearchResults[i + 1]) =>
                \A c \in DOMAIN Candidates :
                    \/ \E k \in 1..(i + 1) : SearchResults[k].path = Candidates[c].path
                    \/ TooSimilar(SearchResults[i], Candidates[c])

\* C13: of two results with the same content and different timestamps, the
\* more recent one has the higher score and comes first; when the index holds
\* two documents of the same content and different timestamps and nothing
\* else, the first result is the more recent one.
RecentRanksAboveOlder ==
    SearchReturned =>
        /\ \A i, j \in DOMAIN SearchResults :
               (/\ SearchResults[i].content = SearchResults[j].content
                /\ SearchResults[i].timestamp > SearchResults[j].timestamp)
               => (SearchResults[i].score > SearchResults[j].score /\ i < j)
        /\ (/\ Len(documents) = 2
            /\ documents[1].content = documents[2].content
            /\ documents[1].timestamp # documents[2].timestamp
            /\ SearchResults # <<>>)
           => \A i \in DOMAIN documents :
                  SearchResults[1].timestamp >= documents[i].timestamp

\* the older of two documents of the same content stamped in the past, the
\* other stamped with the time of the search, both returned
RecentRanksAboveOlderWitness ==
    /\ SearchReturned
    /\ Len(documents) = 2
    /\ Len(SearchResults) = 2
    /\ SearchResults[1].content = SearchResults[2].content
    /\ SearchResults[1].timestamp = ret.input.now
    /\ SearchResults[2].timestamp < ret.input.now

Bm25Returned == ret.op = "bm25Search" /\ ret.err = ""

\* the indexed documents that contain a token of the query
Matching(query) ==
    {i \in DOMAIN documents :
        Range(tokenize(query)) \cap Range(tokenize(documents[i].content)) # {}}

\* C14: BM25Index.search(query, limit) with limit >= 0 returns only documents
\* that contain a query token, each with a score above 0, in non-increasing
\* order of score; it returns min(limit, number of such documents) of them,
\* and no such document left out has a higher score than one returned; an
\* empty query or an empty index yields the empty list.
Bm25SearchContract ==
    (Bm25Returned /\ ret.input.limit >= 0) =>
        LET results == ret.val[1]
            matching == Matching(ret.input.query)
            returned_ == {i \in DOMAIN documents :
                            \E k \in DOMAIN results : results[k].doc = documents[i]}
        IN  /\ \A k \in DOMAIN results :
                   /\ results[k].score > 0
                   /\ \E i \in matching : results[k].doc = documents[i]
            /\ NonIncreasing(results)
            /\ Len(results) = IF ret.input.limit < Cardinality(matching)
                              THEN ret.input.limit ELSE Cardinality(matching)
            /\ Cardinality(returned_) = Len(results)
            /\ \A i \in matching \ returned_ : \A k \in DOMAIN results :
                   results[k].score
                       >= docScore(Index, documents[i], tokenize(ret.input.query))
            /\ (tokenize(ret.input.query) = <<>> \/ documents = <<>>) => results = <<>>

\* a search of three documents, one without the word of the query, that
\* returns the other two
Bm25SearchWitness ==
    /\ Bm25Returned
    /\ ret.input.limit = 3
    /\ Len(documents) = 3
    /\ Len(ret.val[1]) = 2
    /\ Cardinality(Matching(ret.input.query)) = 2

-----------------------------------------------------------------------------
(* MemorySystem.indexWorkspace over a memory directory that changes         *)
(* between runs.  notes holds the files of the directory, each under its    *)
(* path relative to the workspace root.                                     *)

MemoryFiles == { <<"memory/a.md">>, <<"memory/b.md">> }

\* the orders walkDirectory may return the markdown files of the directory in
walkDirectory(dir) ==
    LET found == {name \in DOMAIN dir : name \in MemoryFiles}
    IN  {names \in [1..Cardinality(found) -> found] :
            \A i, j \in DOMAIN names : names[i] = names[j] => i = j}

\* indexWorkspace: the loop over the files, with the mtimeMs stat gives
RECURSIVE indexFiles(_, _, _, _)
indexFiles(index, names, dir, mtimeMs) ==
    IF names = <<>> THEN index
    ELSE indexFiles(addDocument(index, Head(names), Head(names), dir[Head(names)],
                                mtimeMs[Head(names)]),
                    Tail(names), dir, mtimeMs)

\* indexWorkspace(): every file found is added under its relative path
IndexWorkspace ==
    /\ \E names \in walkDirectory(notes) :
       \E mtimeMs \in [DOMAIN notes -> {1, now}] :
           /\ SetIndex(indexFiles(Index, names, notes, mtimeMs))
           /\ ret' = Returns("c1", "indexWorkspace", NoSession, Len(names), notes)
    /\ UNCHANGED <<files, birth, now, uuids, procs, returned, deleteCalled, faults>>
    /\ UNCHANGED <<compactVars, serviceVars>>

\* the user saves a markdown file in the memory directory
WriteMemoryFile(name, content) ==
    /\ notes' = Put(notes, name, content)
    /\ ret' = NoReturn
    /\ UNCHANGED <<files, birth, now, uuids, procs, returned, deleteCalled, faults>>
    /\ UNCHANGED <<indexVars, history, maxTokens, diskOk, compacted, serviceVars>>

\* the user deletes a file of the memory directory
RemoveMemoryFile(name) ==
    /\ name \in DOMAIN notes
    /\ notes' = Remove(notes, name)
    /\ ret' = NoReturn
    /\ UNCHANGED <<files, birth, now, uuids, procs, returned, deleteCalled, faults>>
    /\ UNCHANGED <<indexVars, history, maxTokens, diskOk, compacted, serviceVars>>

NextWorkspace ==
    \/ \E name \in MemoryFiles, content \in SearchContents :
           WriteMemoryFile(name, content)
    \/ \E name \in MemoryFiles : RemoveMemoryFile(name)
    \/ IndexWorkspace
    \/ \E query \in Queries \ {<<>>} : MemorySearch(query, 3, now)

SpecWorkspace == Init /\ [][NextWorkspace]_vars

IndexWorkspaceReturned == ret.op = "indexWorkspace" /\ ret.err = ""

\* C24: when an indexWorkspace run has completed, every file of the memory
\* directory is indexed under its path with the content it has now, and no
\* document is left in the index whose file is gone from the directory
IndexFollowsDirectory ==
    IndexWorkspaceReturned =>
        /\ \A name \in DOMAIN notes :
               /\ HasDocument(documents, name)
               /\ GetDocument(documents, name).content = notes[name]
        /\ \A i \in DOMAIN documents : documents[i].id \in DOMAIN notes

\* a run of indexWorkspace() by caller p, one step per await: walkDirectory;
\* readFile of the next file; stat of it and, in the same turn, addDocument.
\* scan holds the files still to index, entry the content read, id the
\* indexedCount; a file that is gone when it is read or stat'ed is skipped
IndexWorkspaceRun(p) ==
    /\ \/ /\ procs[p] = Idle
          /\ \E names \in walkDirectory(notes) :
                 IF names = <<>>
                 THEN /\ procs' = procs
                      /\ ret' = Returns(p, "indexWorkspace", NoSession, 0, notes)
                 ELSE /\ procs' = [procs EXCEPT ![p] =
                             [Idle EXCEPT !.op = "indexWorkspace", !.pc = "readFile",
                                          !.scan = names]]
                      /\ ret' = NoReturn
          /\ UNCHANGED <<indexVars, returned>>
       \/ /\ procs[p].op = "indexWorkspace" /\ procs[p].pc = "readFile"
          /\ LET filePath == Head(procs[p].scan)
             IN  IF filePath \in DOMAIN notes
                 THEN /\ procs' = [procs EXCEPT ![p].pc = "stat",
                                                ![p].entry = notes[filePath]]
                      /\ returned' = Put(returned, filePath, notes[filePath])
                 ELSE /\ IF Len(procs[p].scan) > 1
                         THEN procs' = [procs EXCEPT ![p].scan = Tail(@)]
                         ELSE procs' = [procs EXCEPT ![p] = Idle]
                      /\ returned' = returned
          /\ ret' = IF procs'[p] = Idle
                    THEN Returns(p, "indexWorkspace", NoSession, procs[p].id, notes)
                    ELSE NoReturn
          /\ UNCHANGED indexVars
       \/ /\ procs[p].op = "indexWorkspace" /\ procs[p].pc = "stat"
          /\ LET filePath == Head(procs[p].scan)
                 found == filePath \in DOMAIN notes
                 indexedCount == IF found THEN procs[p].id + 1 ELSE procs[p].id
             IN  /\ IF found
                    THEN SetIndex(addDocument(Index, filePath, filePath,
                                              procs[p].entry, now))
                    ELSE UNCHANGED indexVars
                 /\ IF Len(procs[p].scan) > 1
                    THEN /\ procs' = [procs EXCEPT ![p].pc = "readFile",
                                                   ![p].scan = Tail(@),
                                                   ![p].entry = <<>>,
                                                   ![p].id = indexedCount]
                         /\ ret' = NoReturn
                    ELSE /\ procs' = [procs EXCEPT ![p] = Idle]
                         /\ ret' = Returns(p, "indexWorkspace", NoSession,
                                           indexedCount, notes)
          /\ returned' = returned
    /\ UNCHANGED <<files, birth, now, uuids, deleteCalled, faults>>
    /\ UNCHANGED <<compactVars, serviceVars>>

NextReindex ==
    \/ \E name \in MemoryFiles, content \in SearchContents :
           WriteMemoryFile(name, content)
    \/ \E p \in Callers : IndexWorkspaceRun(p)

SpecReindex == Init /\ [][NextReindex]_vars

\* C35: when no run of indexWorkspace is in flight, the index holds for
\* every file that was read the content read last from it
ReindexKeepsNewest ==
    (\A p \in Callers : procs[p] = Idle) =>
        \A name \in DOMAIN returned :
            /\ HasDocument(documents, name)
            /\ GetDocument(documents, name).content = returned[name]

-----------------------------------------------------------------------------
(* MemorySystem.loadBootstrap over a workspace whose SOUL.md and USER.md    *)
(* the user edits between calls.                                            *)

\* workspace.soulPath and workspace.userPath, relative to the workspace root
BootstrapFiles == [soul |-> <<"SOUL.md">>, user |-> <<"USER.md">>]

\* what the user saves in them: text with white space around it, text, and
\* white space alone
BootstrapContents == { <<SP, "s", NL>>, <<"u">>, <<SP, NL>> }

\* loadBootstrap(): the two reads, each empty when access or readFile
\* throws, the object assigned to bootstrapCache and the string returned
loadBootstrap(dir) ==
    LET read(path) == IF path \in DOMAIN dir THEN dir[path] ELSE <<>>
        soulContent == read(BootstrapFiles.soul)
        userContent == read(BootstrapFiles.user)
        parts == SelectSeq(<<Trim(soulContent), Trim(userContent)>>,
                           LAMBDA part : part # <<>>)
    IN  [cache |-> [soul |-> soulContent, user |-> userContent],
         content |-> IF Len(parts) = 2 THEN parts[1] \o <<NL, NL>> \o parts[2]
                     ELSE Flatten(parts)]

LoadBootstrap ==
    /\ bootstrapCache' = <<loadBootstrap(notes).cache>>
    /\ ret' = Returns("c1", "loadBootstrap", NoSession, loadBootstrap(notes).content,
                      notes)
    /\ UNCHANGED <<files, birth, now, uuids, procs, returned, deleteCalled, faults>>
    /\ UNCHANGED <<indexVars, compactVars, gatewayVars, securityVars>>

NextBootstrap ==
    \/ \E name \in {BootstrapFiles.soul, BootstrapFiles.user} :
           \/ \E content \in BootstrapContents : WriteMemoryFile(name, content)
           \/ RemoveMemoryFile(name)
    \/ LoadBootstrap

SpecBootstrap == Init /\ [][NextBootstrap]_vars

\* the string loadBootstrap makes of the two contents of a cache
CachedContent(cache) ==
    loadBootstrap((BootstrapFiles.soul :> cache.soul) @@ (BootstrapFiles.user :> cache.user)).content

\* C27: loadBootstrap never throws, a file that is missing contributes
\* nothing and with both missing the result is empty; once a loadBootstrap
\* has filled the cache, the cache keeps those contents and every later
\* loadBootstrap returns them
BootstrapIsReadOnce ==
    [][ret'.op = "loadBootstrap" =>
           /\ ret'.err = ""
           /\ BootstrapFiles.soul \notin DOMAIN notes => bootstrapCache'[1].soul = <<>>
           /\ BootstrapFiles.user \notin DOMAIN notes => bootstrapCache'[1].user = <<>>
           /\ DOMAIN notes = {} => ret'.val[1] = <<>>
           /\ bootstrapCache # <<>> =>
                  /\ bootstrapCache' = bootstrapCache
                  /\ ret'.val[1] = CachedContent(bootstrapCache[1])]_vars

\* the half of C27 that holds: no failure, missing files read as empty, and
\* the cache holding what the latest loadBootstrap read
BootstrapToleratesMissingFiles ==
    [][ret'.op = "loadBootstrap" =>
           /\ ret'.err = ""
           /\ BootstrapFiles.soul \notin DOMAIN notes => bootstrapCache'[1].soul = <<>>
           /\ BootstrapFiles.user \notin DOMAIN notes => bootstrapCache'[1].user = <<>>
           /\ DOMAIN notes = {} => ret'.val[1] = <<>>
           /\ ret'.val[1] = CachedContent(bootstrapCache'[1])]_vars

-----------------------------------------------------------------------------
(* SessionManager.list, and the readers on logs a crash or an edit left.   *)

\* sessions.sort((a, b) => b.updatedAt - a.updatedAt): stable, newest first
sortByUpdatedAt(sessions) ==
    LET keyed  == [i \in DOMAIN sessions |->
                      [score |-> sessions[i].updatedAt, session |-> sessions[i]]]
        sorted == SortByScore(keyed)
    IN  [i \in DOMAIN sorted |-> sorted[i].session]

\* list: load every log readdir named, skip the ones load rejects, sort
list(dir, names, clock) ==
    LET present == SelectSeq(names, LAMBDA id : id \in DOMAIN dir)
    IN  sortByUpdatedAt([i \in DOMAIN present |->
                            load(present[i], dir[present[i]], clock)])

\* the orders readdir may name the logs of the directory in
ReaddirOrders ==
    {names \in [1..Cardinality(DOMAIN files) -> DOMAIN files] :
        \A i, j \in DOMAIN names : names[i] = names[j] => i = j}

\* list: readdir
ListStart(p) ==
    /\ procs[p] = Idle
    /\ \E names \in ReaddirOrders :
           procs' = [procs EXCEPT ![p] =
               [Idle EXCEPT !.op = "list", !.pc = "loading", !.scan = names]]
    /\ ret' = NoReturn
    /\ UNCHANGED <<files, birth, now, uuids, returned, deleteCalled, faults>>

\* list: the loads, the sort and the return
ListLoad(p, t) ==
    /\ procs[p].op = "list" /\ procs[p].pc = "loading"
    /\ LET names    == procs[p].scan
           headless == \E i \in DOMAIN names :
                          /\ names[i] \in DOMAIN files
                          /\ load(names[i], files[names[i]], 0).createdAt = 0
       IN  /\ ret' = Returns(p, "list", NoSession, list(files, names, t), files)
           \* the clock is read only for a log no metadata line gave createdAt
           /\ now' = IF headless THEN t ELSE now
           /\ t # now => headless
    /\ procs' = [procs EXCEPT ![p] = Idle]
    /\ UNCHANGED <<files, birth, uuids, returned, deleteCalled, faults>>

List(p) ==
    \/ ListStart(p)
    \/ \E t \in Clock : ListLoad(p, t)

\* the logs of one session: written by create and appendMessage at times 1
\* and 2, then left whole, cut by a crash, or edited by hand
Logs(id) ==
    LET said   == CHOOSE m \in Messages : m.role = Role.user
        header == createLog(id, 1)
        first  == appendLine(buildEntry(MaxUuids + 1, 1, said))
        second == appendLine(buildEntry(MaxUuids + 2, 2, said))
    IN  { header \o first \o second,
          \* an append cut short, the next one glued to its remains
          header \o <<"{">> \o first \o second,
          \* the header clobbered
          <<"x">> \o Tail(header) \o first,
          \* the header moved below the first entry
          first \o header,
          \* a metadata object on a line of its own, without the '#'
          header \o Tail(header) \o first }

InitLogs ==
    /\ \E ids \in {{1}, {1, 2}} :
           /\ files \in [ids -> Logs(1) \cup Logs(2)]
           /\ \A id \in ids : files[id] \in Logs(id)
           /\ birth = [id \in ids |-> 1]
           /\ returned = [id \in ids |-> <<>>]
    /\ now = MaxClock
    /\ uuids = MaxUuids
    /\ procs = [p \in Callers |-> Idle]
    /\ ret = NoReturn
    /\ deleteCalled = {}
    /\ faults = 0
    /\ documents = <<>>
    /\ documentFrequency = <<>>
    /\ avgDocLength = <<0, 1>>
    /\ history = <<>>
    /\ maxTokens = 0
    /\ diskOk = TRUE
    /\ notes = <<>>
    /\ compacted = <<>>
    /\ bootstrapCache = <<>>
    /\ clients = <<>>
    /\ inFlightRequests = <<>>
    /\ isShuttingDown = FALSE
    /\ httpServer = "null"
    /\ stopping = <<>>
    /\ aborted = {}
    /\ cachedToken = <<>>
    /\ authStore = <<>>

NextLogs ==
    /\ \/ GetHistory("c1", DOMAIN files)
       \/ Load("c1", DOMAIN files)
       \/ Repair("c1", DOMAIN files)
       \/ List("c1")
    /\ UNCHANGED <<indexVars, compactVars, serviceVars>>

SpecLogs == InitLogs /\ [][NextLogs]_vars

-----------------------------------------------------------------------------
(* Claims about the readers of a damaged log.                              *)

\* the entry lines of a log that deserialize to a transcript entry
TranscriptEntries(content) ==
    LET lines == SelectSeq(EntryLines(content), LAMBDA l : ParseEntry(l).ok)
    IN  [i \in DOMAIN lines |-> ParseEntry(lines[i]).val]

\* C17: on an existing log getHistory and load never fail, and getHistory
\* returns exactly the entry lines that deserialize to a transcript entry, in
\* file order, without the metadata header
HistoryIsTheTranscriptEntries ==
    /\ ret.op \in {"getHistory", "load"} => ret.err = ""
    /\ ret.op = "getHistory" => ret.val[1] = TranscriptEntries(ret.input)

\* C18: repair succeeds and leaves a log whose first line is a metadata
\* header and whose later lines all deserialize to a transcript entry; the
\* lines that parsed before are all still there, the others are gone
RepairLeavesHeaderThenEntries ==
    /\ ret.op = "repair" => ret.err = ""
    /\ RepairReturned =>
           LET before == TrimmedLines(ret.input)
               after  == TrimmedLines(files[ret.id])
           IN  /\ after # <<>>
               /\ StartsWithHash(after[1]) /\ ParseMetadata(Tail(after[1])).ok
               /\ \A i \in 2..Len(after) :
                      ~StartsWithHash(after[i]) /\ ParseEntry(after[i]).ok
               /\ \A i \in DOMAIN before :
                      Deserializes(before[i]) <=>
                          \E j \in DOMAIN after : after[j] = before[i]

\* the largest timestamp among the entries load counted, 0 when there is none
RECURSIVE maxTimestamp(_)
maxTimestamp(lines) ==
    IF lines = <<>> THEN 0
    ELSE LET e    == JsonParse(Head(lines))
             rest == maxTimestamp(Tail(lines))
         IN  IF e.ok /\ "timestamp" \in DOMAIN e.val /\ e.val.timestamp > rest
             THEN e.val.timestamp ELSE rest

\* the metadata lines of a log that parse
Headers(content) ==
    SelectSeq(TrimmedLines(content),
              LAMBDA l : StartsWithHash(l) /\ ParseMetadata(Tail(l)).ok)

ListReturned == ret.op = "list" /\ ret.err = ""

\* C19: list returns one Session per existing log and no others, newest
\* updatedAt first; createdAt is the header's or, without a header, the
\* file's creation time, updatedAt is the largest entry timestamp of the log
\* (createdAt for a log without entries), messageCount counts the entries
\* that parsed
ListDescribesEveryLog ==
    ListReturned =>
        LET sessions == ret.val[1]
            dir      == ret.input
        IN  /\ Len(sessions) = Cardinality(DOMAIN dir)
            /\ {sessions[i].id : i \in DOMAIN sessions} = DOMAIN dir
            /\ \A i \in 1..(Len(sessions) - 1) :
                   sessions[i].updatedAt >= sessions[i + 1].updatedAt
            /\ \A i \in DOMAIN sessions :
                   LET s       == sessions[i]
                       log     == dir[s.id]
                       headers == Headers(log)
                       entries == SelectSeq(EntryLines(log),
                                            LAMBDA l : JsonParse(l).ok)
                   IN  /\ s.createdAt = IF headers # <<>>
                                        THEN ParseMetadata(Tail(headers[1])).val.createdAt
                                        ELSE birth[s.id]
                       /\ s.updatedAt = IF maxTimestamp(entries) > 0
                                        THEN maxTimestamp(entries)
                                        ELSE s.createdAt
                       /\ s.messageCount = Len(entries)

\* every line of the log that is not blank parses
EveryLineParses(content) ==
    \A i \in DOMAIN TrimmedLines(content) : Deserializes(TrimmedLines(content)[i])

\* the step on which a repair writes the log and returns
RepairReturns ==
    /\ \E p \in Callers :
           procs[p].op = "repair" /\ procs[p].pc = "writing" /\ procs'[p] = Idle
    /\ ret'.op = "repair" /\ ret'.err = ""

\* a log as repair writes it: a metadata line that parses, no blank line, no
\* white space around a line, and a newline after the last line
Canonical(content) ==
    /\ Headers(content) # <<>>
    /\ content # <<>> /\ content[Len(content)] = NL
    /\ SplitLines(content) = TrimmedLines(content) \o << <<>> >>

CountIsHistoryLength ==
    /\ \A id \in DOMAIN files :
           load(id, files[id], now).messageCount = Len(getHistory(files[id]))
    /\ (ret.op = "load" /\ ret.err = "") =>
           ret.val[1].messageCount = Len(getHistory(ret.input))
    /\ ListReturned =>
           \A i \in DOMAIN ret.val[1] :
               ret.val[1][i].messageCount =
                   Len(getHistory(ret.input[ret.val[1][i].id]))

\* list returned the count 1 for a log of three lines, one of which is an
\* entry glued to the remains of an append that was cut short
CountIsHistoryLengthWitness ==
    /\ ListReturned
    /\ \E i \in DOMAIN ret.val[1] :
           LET log == ret.input[ret.val[1][i].id]
           IN  /\ ret.val[1][i].messageCount = 1
               /\ Len(NonBlankLines(log)) = 3
               /\ Len(getHistory(log)) = 1

-----------------------------------------------------------------------------
(* SessionManager.create, called from several places at once.              *)

\* a create() that names its log after the first session
firstUUID(drawn) == 1

\* randomUUID(): a version 4 UUID has 122 random bits, so a draw is taken to
\* differ from every earlier draw; `drawn` counts the draws so far
randomUUID(drawn) == drawn + 1

\* create: randomUUID() and Date.now(), up to the await of writeFile
CreateStart(p, t) ==
    /\ procs[p] = Idle
    /\ uuids < MaxUuids
    /\ uuids' = uuids + 1
    /\ now' = t
    /\ procs' = [procs EXCEPT ![p] =
           [Idle EXCEPT !.op = "create", !.pc = "writing",
                        !.id = randomUUID(uuids), !.scan = <<t>>]]
    /\ ret' = NoReturn
    /\ UNCHANGED <<files, birth, returned, deleteCalled, faults>>

\* create: writeFile of the metadata header, and the Session returned
CreateWrite(p) ==
    /\ procs[p].op = "create" /\ procs[p].pc = "writing"
    /\ LET id == procs[p].id
           t  == procs[p].scan[1]
       IN  /\ files' = Put(files, id, createLog(id, t))
           /\ birth' = Put(birth, id, IF id \in DOMAIN files THEN birth[id] ELSE now)
           /\ returned' = Put(returned, id, <<>>)
           /\ ret' = Returns(p, "create", id,
                             [id |-> id, createdAt |-> t, updatedAt |-> t,
                              messageCount |-> 0], <<>>)
    /\ procs' = [procs EXCEPT ![p] = Idle]
    /\ UNCHANGED <<now, uuids, deleteCalled, faults>>

CreateCall(p) ==
    \/ \E t \in Clock : CreateStart(p, t)
    \/ CreateWrite(p)

NextCreate ==
    /\ \E p \in Callers :
          \/ CreateCall(p)
          \/ Load(p, DOMAIN returned)
          \/ Delete(p, DOMAIN returned)
    /\ UNCHANGED <<indexVars, compactVars, serviceVars>>

SpecCreate == Init /\ [][NextCreate]_vars

\* a create call returns in this step
CreateReturns == \E p \in Callers : procs[p].op = "create" /\ procs'[p] = Idle

-----------------------------------------------------------------------------
(* MemorySystem.compact.                                                   *)

MaxFacts == 10
FactLimit == 100
MaxHistory == 3

\* estimateTokens: Math.ceil(text.length / 4)
estimateTokens(text) == (Len(text) + 3) \div 4

RECURSIVE TotalTokens(_)
TotalTokens(entries) ==
    IF entries = <<>> THEN 0
    ELSE estimateTokens(Head(entries).content) + TotalTokens(Tail(entries))

\* Math.floor(limit * 0.7) in doubles.  The double 0.7 is 0.7 - 0.4 * 2^-53,
\* so the product falls short of the exact 7 * limit / 10 by 0.4 * limit * 2^-53;
\* that changes the floor only when the exact product is a whole number N and
\* the shortfall is more than half the spacing of the doubles below N, which
\* is 2^-53 times the largest power of two up to N (90 * 0.7 is
\* 62.99999999999999)
recentLimit(limit) ==
    LET exact == (7 * limit) \div 10
        RECURSIVE PowerOfTwoUpTo(_, _)
        PowerOfTwoUpTo(n, power) ==
            IF 2 * power <= n THEN PowerOfTwoUpTo(n, 2 * power) ELSE power
    IN  IF limit > 0 /\ limit % 10 = 0 /\ 4 * exact > 7 * PowerOfTwoUpTo(exact, 1)
        THEN exact - 1
        ELSE exact

\* a backward loop that stops when the share for recent entries is reached
RECURSIVE recentCountStrict(_, _, _)
recentCountStrict(entries, recentTokens, limit) ==
    IF entries = <<>> THEN 0
    ELSE LET entryTokens == estimateTokens(entries[Len(entries)].content)
         IN  IF recentTokens + entryTokens < limit
             THEN 1 + recentCountStrict(SubSeq(entries, 1, Len(entries) - 1),
                                        recentTokens + entryTokens, limit)
             ELSE 0

\* the backward loop of compact: the number of newest entries kept
RECURSIVE recentCount(_, _, _)
recentCount(entries, recentTokens, limit) ==
    IF entries = <<>> THEN 0
    ELSE LET entryTokens == estimateTokens(entries[Len(entries)].content)
         IN  IF recentTokens + entryTokens <= limit
             THEN 1 + recentCount(SubSeq(entries, 1, Len(entries) - 1),
                                  recentTokens + entryTokens, limit)
             ELSE 0

\* regex.test(s) of a regular expression /\b(cue|...)\b/i
TestCues(s, cues) ==
    LET low == ToLowerCase(s)
        \* \w of a regular expression
        IsWordChar(c) == IsAlnum(ToLowerChar(c)) \/ c = "_"
        \* \b(cue)\b matches the lowercased text at position i
        CueAt(i, cue) ==
            /\ low[i] = cue[1]
            /\ i = 1 \/ ~IsWordChar(low[i - 1])
            /\ i + Len(cue) - 1 <= Len(low)
            /\ i + Len(cue) - 1 = Len(low) \/ ~IsWordChar(low[i + Len(cue)])
            /\ SubSeq(low, i, i + Len(cue) - 1) = cue
    IN  \E i \in 1..Len(low) : \E cue \in cues : CueAt(i, cue)

\* the words of the three regular expressions of extractFacts
Cues ==
    [\* /\b(is|are|was|were|means|refers to)\b/i
     isDefinition |->
        { <<"i", "s">>,
          <<"a", "r", "e">>,
          <<"w", "a", "s">>,
          <<"w", "e", "r", "e">>,
          <<"m", "e", "a", "n", "s">>,
          <<"r", "e", "f", "e", "r", "s", " ", "t", "o">> },
     \* /\b(prefer|like|want|need|should|must)\b/i
     isPreference |->
        { <<"p", "r", "e", "f", "e", "r">>,
          <<"l", "i", "k", "e">>,
          <<"w", "a", "n", "t">>,
          <<"n", "e", "e", "d">>,
          <<"s", "h", "o", "u", "l", "d">>,
          <<"m", "u", "s", "t">> },
     \* /\b(always|never|usually|typically|important)\b/i
     isStatement |->
        { <<"a", "l", "w", "a", "y", "s">>,
          <<"n", "e", "v", "e", "r">>,
          <<"u", "s", "u", "a", "l", "l", "y">>,
          <<"t", "y", "p", "i", "c", "a", "l", "l", "y">>,
          <<"i", "m", "p", "o", "r", "t", "a", "n", "t">> }]

isFactLike(trimmed) ==
    \/ TestCues(trimmed, Cues.isDefinition)
    \/ TestCues(trimmed, Cues.isPreference)
    \/ TestCues(trimmed, Cues.isStatement)

\* content.split(/[.!?]+/).filter(s => s.trim().length > 10)
Sentences(content) ==
    SelectSeq(SplitOn(content, {".", "!", "?"}), LAMBDA s : Len(Trim(s)) > 10)

\* a fact kept at its full length
limitFactWhole(trimmed) == trimmed

\* trimmed.length > 100 ? trimmed.slice(0, 100) + '...' : trimmed
limitFact(trimmed) ==
    IF Len(trimmed) > FactLimit
    THEN SubSeq(trimmed, 1, FactLimit) \o <<".", ".", ".">>
    ELSE trimmed

\* the inner loop of extractFacts over the sentences of one entry
RECURSIVE scanSentences(_, _)
scanSentences(sentences, facts) ==
    IF sentences = <<>> THEN facts
    ELSE LET trimmed == Trim(Head(sentences))
         IN  IF isFactLike(trimmed)
             THEN LET more == Append(facts, limitFact(trimmed))
                  IN  IF Len(more) >= MaxFacts THEN more
                      ELSE scanSentences(Tail(sentences), more)
             ELSE scanSentences(Tail(sentences), facts)

\* an outer loop that reads the tool entries as well
RECURSIVE scanEntriesWithTools(_, _)
scanEntriesWithTools(entries, facts) ==
    IF entries = <<>> THEN facts
    ELSE LET more == scanSentences(Sentences(Head(entries).content), facts)
         IN  IF Len(more) >= MaxFacts THEN more
             ELSE scanEntriesWithTools(Tail(entries), more)

\* the outer loop of extractFacts over the entries
RECURSIVE scanEntries(_, _)
scanEntries(entries, facts) ==
    IF entries = <<>> THEN facts
    ELSE IF Head(entries).role = Role.tool THEN scanEntries(Tail(entries), facts)
    ELSE LET more == scanSentences(Sentences(Head(entries).content), facts)
         IN  IF Len(more) >= MaxFacts THEN more
             ELSE scanEntries(Tail(entries), more)

extractFacts(entries) == scanEntries(entries, <<>>)

\* a summary entry stamped with the time of the compaction
summaryEntryNow(facts, olderMessages, t) ==
    [id |-> <<"summary-", ToString(t)>>, timestamp |-> t,
     role |-> Role.assistant,
     content |-> <<"[">> \o Flatten(facts) \o <<"]">>,
     toolCall |-> <<>>, toolResult |-> <<>>]

\* the entry that stands for the older messages:
\* `[Context Summary: ${facts.join('; ')}]`
summaryEntry(facts, olderMessages, t) ==
    LET RECURSIVE JoinFacts(_)
        JoinFacts(fs) ==
            IF fs = <<>> THEN <<>>
            ELSE IF Len(fs) = 1 THEN Head(fs)
            ELSE Head(fs) \o <<";", " ">> \o JoinFacts(Tail(fs))
        SummaryOpen == <<"[", "C", "o", "n", "t", "e", "x", "t", " ", "S", "u", "m",
                         "m", "a", "r", "y", ":", " ">>
    IN  [id |-> <<"summary-", ToString(t)>>, timestamp |-> olderMessages[1].timestamp,
         role |-> Role.assistant, content |-> SummaryOpen \o JoinFacts(facts) \o <<"]">>,
         toolCall |-> <<>>, toolResult |-> <<>>]

\* a compact that goes on to summarize whatever the total is
compactRegardless(entries, limit, t) ==
    LET kept == recentCount(entries, 0, recentLimit(limit))
        recentMessages == SubSeq(entries, Len(entries) - kept + 1, Len(entries))
        olderMessages == SubSeq(entries, 1, Len(entries) - kept)
        facts == extractFacts(olderMessages)
    IN  IF Len(olderMessages) > 0 /\ Len(facts) > 0
        THEN [compactedHistory |->
                  <<summaryEntry(facts, olderMessages, t)>> \o recentMessages,
              flushedFacts |-> facts]
        ELSE [compactedHistory |-> recentMessages, flushedFacts |-> <<>>]

\* compact up to the flush: the history it will return and the facts
compact(entries, limit, t) ==
    IF TotalTokens(entries) <= limit
    THEN [compactedHistory |-> entries, flushedFacts |-> <<>>]
    ELSE LET kept == recentCount(entries, 0, recentLimit(limit))
             recentMessages == SubSeq(entries, Len(entries) - kept + 1, Len(entries))
             olderMessages == SubSeq(entries, 1, Len(entries) - kept)
             facts == extractFacts(olderMessages)
         IN  IF Len(olderMessages) > 0 /\ Len(facts) > 0
             THEN [compactedHistory |->
                       <<summaryEntry(facts, olderMessages, t)>> \o recentMessages,
                   flushedFacts |-> facts]
             ELSE [compactedHistory |-> recentMessages, flushedFacts |-> <<>>]

\* the path of the note, relative to the workspace root
NoteName(t) == <<"memory/facts-", ToString(t), ".md">>

\* the content flushFactsToDisk writes
noteContent(facts, t) ==
    LET \* new Date(timestamp).toISOString() of a timestamp below 10 ms
        IsoString ==
            <<"1", "9", "7", "0", "-", "0", "1", "-", "0", "1", "T", "0", "0", ":",
              "0", "0", ":", "0", "0", ".", "0", "0">> \o <<ToString(t), "Z">>
    IN  JoinLines(<<<<"#", " ", "E", "x", "t", "r", "a", "c", "t", "e", "d", " ",
                        "F", "a", "c", "t", "s">>,
                      <<>>,
                      <<"E", "x", "t", "r", "a", "c", "t", "e", "d", " ", "a", "t",
                        ":", " ">> \o IsoString,
                      <<>>>>
                    \o [i \in 1..Len(facts) |-> <<"-", " ">> \o facts[i]])

-----------------------------------------------------------------------------
(* The calls of compact.                                                   *)

EntryPool ==
    { [role |-> Role.user, content |-> <<"I", "t", " ", "i", "s", " ", "s", "o", "!">>],
      [role |-> Role.user,
       content |-> <<"T", "h", "i", "s", " ", "t", "h", "i", "n", "g", " ", "o", "k",
          ".", " ", "W", "e", " ", "M", "U", "S", "T", " ", "g", "o", " ",
          "n", "o", "w", "!">>],
      [role |-> Role.assistant,
       content |-> <<"i", "t", " ", "i", "s", " ">> \o [i \in 1..FactLimit |-> "a"]
                       \o <<".">>],
      [role |-> Role.user,
       content |-> Flatten([k \in 1..(MaxFacts + 1) |->
                      <<"w", "e", " ", "m", "u", "s", "t", " ", "d", "o", " ",
                        Alphabet.lower[k], ".">>])],
      [role |-> Role.tool,
       content |-> <<"i", "t", " ", "i", "s", " ", "d", "o", "n", "e", " ", "o", "k", ".">>] }

Budgets == {-1, 0, 5, 50, 90}

Histories ==
    UNION { { [i \in 1..n |->
                 [id |-> <<"e", ToString(i)>>, timestamp |-> i, role |-> h[i].role,
                  content |-> h[i].content, toolCall |-> <<>>, toolResult |-> <<>>]]
              : h \in [1..n -> EntryPool] } : n \in 0..MaxHistory }

InitCompactCall ==
    /\ files = <<>>
    /\ birth = <<>>
    /\ now = 1
    /\ uuids = 0
    /\ procs = [p \in Callers |-> Idle]
    /\ ret = NoReturn
    /\ returned = <<>>
    /\ deleteCalled = {}
    /\ faults = 0
    /\ documents = <<>>
    /\ documentFrequency = <<>>
    /\ avgDocLength = <<0, 1>>
    /\ history \in Histories
    /\ maxTokens \in Budgets
    /\ diskOk \in BOOLEAN
    /\ notes = <<>>
    /\ compacted = <<>>
    /\ bootstrapCache = <<>>
    /\ clients = <<>>
    /\ inFlightRequests = <<>>
    /\ isShuttingDown = FALSE
    /\ httpServer = "null"
    /\ stopping = <<>>
    /\ aborted = {}
    /\ cachedToken = <<>>
    /\ authStore = <<>>

\* compact(history, maxTokens): t is the clock read for the summary's id, t2
\* the one for the note; writeFile fails when the disk is not ok, and
\* flushFactsToDisk catches the failure and logs it
Compact(t, t2) ==
    /\ compacted = <<>>
    /\ \E result \in {compact(history, maxTokens, t)} :
           /\ result.flushedFacts = <<>> => t = now /\ t2 = now
           /\ compacted' = <<[compactedHistory |-> result.compactedHistory,
                              flushedFacts |-> result.flushedFacts,
                              threw |-> FALSE]>>
           /\ now' = t2
           /\ IF result.flushedFacts # <<>> /\ diskOk
              THEN \E content \in {noteContent(result.flushedFacts, t2)} :
                       /\ notes' = Put(notes, NoteName(t2), content)
                       /\ \E index \in {addDocument(Index, NoteName(t2), NoteName(t2),
                                                    content, t2)} : SetIndex(index)
              ELSE /\ notes' = notes
                   /\ UNCHANGED indexVars
    /\ UNCHANGED <<files, birth, uuids, procs, ret, returned, deleteCalled, faults,
                   history, maxTokens, diskOk, serviceVars>>

NextCompact == \E t \in Clock : \E t2 \in {t, MaxClock} : Compact(t, t2)

SpecCompact == InitCompactCall /\ [][NextCompact]_vars

\* the histories of a later call: one entry, discarded whole by a budget
\* below its estimate
LaterHistories == {h \in Histories : Len(h) = 1}

\* a later compact(h, maxTokens) on the same MemorySystem: the clock may not
\* have moved since the call before read it, and writeFile opens the note
\* with flag 'w'
CompactLater(h, t, t2) ==
    /\ compacted # <<>>
    /\ history' = h
    /\ \E result \in {compact(h, maxTokens, t)} :
           /\ result.flushedFacts = <<>> => t = now /\ t2 = now
           /\ compacted' = <<[compactedHistory |-> result.compactedHistory,
                              flushedFacts |-> result.flushedFacts,
                              threw |-> FALSE]>>
           /\ now' = t2
           /\ IF result.flushedFacts # <<>> /\ diskOk
              THEN \E content \in {noteContent(result.flushedFacts, t2)} :
                       /\ notes' = Put(notes, NoteName(t2), content)
                       /\ \E index \in {addDocument(Index, NoteName(t2), NoteName(t2),
                                                    content, t2)} : SetIndex(index)
              ELSE /\ notes' = notes
                   /\ UNCHANGED indexVars
    /\ UNCHANGED <<files, birth, uuids, procs, ret, returned, deleteCalled, faults,
                   maxTokens, diskOk, serviceVars>>

NextCompactLater ==
    \/ NextCompact
    \/ \E h \in LaterHistories :
           \E t \in Clock : \E t2 \in {t, MaxClock} : CompactLater(h, t, t2)

SpecCompactLater == InitCompactCall /\ [][NextCompactLater]_vars

-----------------------------------------------------------------------------
(* Claims about compact.                                                   *)

Result == compacted[1]

HasSummary ==
    /\ Result.compactedHistory # <<>>
    /\ Head(Result.compactedHistory).id[1] = "summary-"

\* the entries of the input that the returned history does not hold
Discarded ==
    SubSeq(history, 1,
           Len(history) - (Len(Result.compactedHistory) - IF HasSummary THEN 1 ELSE 0))

\* the facts of one entry: its sentences of more than 10 characters that match
\* a cue, each cut to 100 characters
FactsOf(entry) ==
    LET matching == SelectSeq(Sentences(entry.content), LAMBDA s : isFactLike(Trim(s)))
    IN  [i \in 1..Len(matching) |->
            IF Len(Trim(matching[i])) > 100
            THEN SubSeq(Trim(matching[i]), 1, 100) \o <<".", ".", ".">>
            ELSE Trim(matching[i])]

FirstN(s, n) == SubSeq(s, 1, IF Len(s) < n THEN Len(s) ELSE n)

ShrinkOnlyAfterDurableFlush ==
    (compacted # <<>> /\ Result.flushedFacts # <<>>) =>
        IF diskOk
        THEN \E name \in DOMAIN notes :
                 \A i \in DOMAIN Result.flushedFacts :
                     (<<"-", " ">> \o Result.flushedFacts[i])
                         \in Range(SplitLines(notes[name]))
        ELSE Result.threw /\ Result.compactedHistory = <<>>

\* C10: when the budget is at least the token estimate of the most recent
\* entry, the token estimates of the returned history, the summary entry
\* included, sum to at most the budget.
RetainedWithinBudget ==
    (/\ compacted # <<>>
     /\ history # <<>>
     /\ maxTokens >= estimateTokens(history[Len(history)].content))
    => TotalTokens(Result.compactedHistory) <= maxTokens

\* C26: when the token estimates of the history sum to at most the budget,
\* compact returns the history as it is and no facts, writes no note and
\* leaves the index as it was; compact of what it returned returns the same
WithinBudgetIsUntouched ==
    (compacted # <<>> /\ TotalTokens(history) <= maxTokens) =>
        /\ ~Result.threw
        /\ Result.compactedHistory = history
        /\ Result.flushedFacts = <<>>
        /\ notes = <<>>
        /\ Index = [documents |-> <<>>, documentFrequency |-> <<>>,
                    avgDocLength |-> <<0, 1>>]
        /\ compact(Result.compactedHistory, maxTokens, now) =
               [compactedHistory |-> history, flushedFacts |-> <<>>]

\* compact returned a history of two or more entries with facts that fits the
\* budget but not the share of it kept for recent entries
WithinBudgetWitness ==
    /\ compacted # <<>>
    /\ Len(history) >= 2
    /\ TotalTokens(history) <= maxTokens
    /\ TotalTokens(history) > recentLimit(maxTokens)
    /\ extractFacts(history) # <<>>
    /\ diskOk

\* C16: a search called with a negative limit, and a compact called with a
\* negative budget, is rejected with an error: it returns nothing, writes no
\* note and leaves the index as it was.
NegativeArgumentsAreRejected ==
    /\ (ret.op \in {"search", "bm25Search"} /\ ret.input.limit < 0) =>
           (ret.err # "" /\ ret.val = <<>>)
    /\ (compacted # <<>> /\ maxTokens < 0) =>
           (compacted[1].threw /\ notes = <<>> /\ documents = <<>>)

\* compact went past the test of the total: the history was over the budget
Shrinks == compacted # <<>> /\ TotalTokens(history) > maxTokens

Newest == history[Len(history)]

\* text holds part as a run of consecutive characters
Lists(text, part) ==
    \E i \in 1..(Len(text) - Len(part) + 1) :
        SubSeq(text, i, i + Len(part) - 1) = part

\* the last n entries of the history given to compact
NewestEntries(n) == SubSeq(history, Len(history) - n + 1, Len(history))

\* C36: when compact shrinks the history and extracts a fact, the returned
\* history is one synthetic entry (role assistant, content listing the facts,
\* timestamp of the oldest discarded entry) followed by retained entries of
\* the history; when it extracts none, the returned history is retained
\* entries only
SummaryLeadsRetained ==
    Shrinks =>
        LET returns == Result.compactedHistory
        IN  IF Result.flushedFacts # <<>>
            THEN /\ returns # <<>>
                 /\ returns[1].role = Role.assistant
                 /\ returns[1].id \notin {history[i].id : i \in DOMAIN history}
                 /\ \A k \in DOMAIN Result.flushedFacts :
                        Lists(returns[1].content, Result.flushedFacts[k])
                 /\ Len(returns) - 1 < Len(history)
                 /\ returns[1].timestamp = history[1].timestamp
                 /\ Tail(returns) = NewestEntries(Len(returns) - 1)
            ELSE /\ Len(returns) <= Len(history)
                 /\ returns = NewestEntries(Len(returns))

\* compact discarded two entries with a fact each and returned the summary
\* entry followed by the newest entry
SummaryLeadsRetainedWitness ==
    /\ Shrinks
    /\ Len(history) = 3
    /\ Len(Result.flushedFacts) = 2
    /\ Len(Result.compactedHistory) = 2
    /\ now > 1

\* the original entries in the history compact returned
Retained ==
    IF HasSummary THEN Tail(Result.compactedHistory) ELSE Result.compactedHistory

\* the length of the longest suffix of the history whose token estimates sum
\* to at most 70% of the budget; 0 when not even the empty suffix does
LongestRecent ==
    LET fits == {n \in 0..Len(history) :
                    10 * TotalTokens(NewestEntries(n)) <= 7 * maxTokens}
    IN  IF fits = {} THEN 0 ELSE CHOOSE n \in fits : \A k \in fits : k <= n

\* C37: when compact shrinks the history, the original entries it returns are
\* the longest suffix of the history whose token estimates sum to at most 70%
\* of the budget, unmodified and in order, and the facts are those of the
\* entries before that suffix
RetainsLongestRecentSuffix ==
    Shrinks =>
        /\ Retained = NewestEntries(LongestRecent)
        /\ Result.flushedFacts =
               extractFacts(SubSeq(history, 1, Len(history) - LongestRecent))

\* C39: one compact call extracts at most 10 facts, each of at most 100
\* characters or of 100 characters followed by '...', and none of them comes
\* from an entry with role tool
FactsAreBounded ==
    compacted # <<>> =>
        LET factsOfRole(tool) ==
                UNION {Range(FactsOf(history[i])) :
                          i \in {j \in DOMAIN history :
                                     (history[j].role = Role.tool) = tool}}
            fromTools  == factsOfRole(TRUE)
            fromOthers == factsOfRole(FALSE)
        IN  /\ Len(Result.flushedFacts) <= 10
            /\ \A k \in DOMAIN Result.flushedFacts :
                   LET fact == Result.flushedFacts[k]
                   IN  /\ Len(fact) <= 103
                       /\ \/ Len(fact) <= 100
                          \/ SubSeq(fact, 101, 103) = <<".", ".", ".">>
                       /\ fact \in fromOthers
                       /\ fact \notin fromTools

\* compact discarded a tool entry with a sentence that reads like a fact, an
\* entry with a sentence of more than 100 characters and an entry with eleven
\* facts, and extracted ten facts
FactsAreBoundedWitness ==
    /\ compacted # <<>>
    /\ Len(Result.flushedFacts) = 10
    /\ Len(Result.flushedFacts[1]) = 103
    /\ Len(Discarded) = 3
    /\ Discarded[1].role = Role.tool
    /\ isFactLike(Trim(Sentences(Discarded[1].content)[1]))

-----------------------------------------------------------------------------
(* SecurityManager: the token of auth.json, the copy the instance caches,  *)
(* and calls of validateToken and rotateToken that interleave at their     *)
(* awaits.                                                                 *)

\* generateToken(): the values randomBytes(32).toString('hex') may give
GeneratedTokens == { <<"a", "a">>, <<"a", "b">>, <<"b", "a">> }

\* what a client may present: a token once generated, part of one, nothing
ProvidedTokens == GeneratedTokens \cup { <<"a">>, <<>> }

constantTimeCompare(a, b) ==
    IF Len(a) # Len(b) THEN FALSE
    ELSE LET \* result |= a.charCodeAt(i) ^ b.charCodeAt(i), for each i
             result == SelectSeq([i \in 1..Len(a) |-> IF a[i] = b[i] THEN 0 ELSE 1],
                                 LAMBDA x : x # 0)
         IN  result = <<>>

\* the TokenValidationResult of a comparison with the cached token
validationResult(providedToken, cached) ==
    IF constantTimeCompare(providedToken, cached)
    THEN [valid |-> TRUE, reason |-> ""]
    ELSE [valid |-> FALSE, reason |-> "Invalid authentication token"]

\* the tokens the store, the cache or a call in flight holds
TokensInUse ==
    {s[1].token : s \in {authStore} \ {<<>>}}
        \cup {c[1] : c \in {cachedToken} \ {<<>>}}
        \cup {procs[p].entry[1] : p \in {q \in Callers : procs[q].entry # <<>>
                                           /\ procs[q].op \in {"validateToken", "rotateToken"}}}

\* initialize(): the token of auth.json is cached, or with no auth.json
\* createNewToken generates one, saves it and caches it
initialize(store, token, t) ==
    IF store # <<>>
    THEN [authStore |-> store, cachedToken |-> <<store[1].token>>]
    ELSE [authStore |-> <<[token |-> token, createdAt |-> t, rotatedAt |-> <<>>]>>,
          cachedToken |-> <<token>>]

Initialize(p) ==
    /\ \A q \in Callers : procs[q] = Idle
    /\ \E token \in GeneratedTokens \ TokensInUse :
           /\ authStore' = initialize(authStore, token, now).authStore
           /\ cachedToken' = initialize(authStore, token, now).cachedToken
           /\ ret' = Returns(p, "initialize", NoSession, [token |-> cachedToken'[1]], <<>>)
    /\ UNCHANGED <<files, birth, now, uuids, procs, returned, deleteCalled, faults>>
    /\ UNCHANGED <<indexVars, compactVars, bootstrapCache, gatewayVars>>

\* the process is started again: new SecurityManager(authPath) on the
\* auth.json the process before it left
NewSecurityManager ==
    /\ \A q \in Callers : procs[q] = Idle
    /\ cachedToken # <<>>
    /\ cachedToken' = <<>>
    /\ ret' = NoReturn
    /\ UNCHANGED <<files, birth, now, uuids, procs, returned, deleteCalled, faults>>
    /\ UNCHANGED <<indexVars, compactVars, bootstrapCache, gatewayVars, authStore>>

\* validateToken, step by step: with a cached token the comparison and the
\* return, with none readFile of auth.json is issued; readFile has read
\* auth.json, or failed; the token read is cached and compared
ValidateToken(p, providedTokens) ==
    /\ \/ /\ procs[p] = Idle
          /\ \E providedToken \in providedTokens :
                IF cachedToken # <<>>
                THEN /\ ret' = Returns(p, "validateToken", NoSession,
                                       validationResult(providedToken, cachedToken[1]),
                                       providedToken)
                     /\ procs' = procs
                ELSE /\ procs' = [procs EXCEPT ![p] =
                            [Idle EXCEPT !.op = "validateToken", !.pc = "reading",
                                         !.message = <<providedToken>>]]
                     /\ ret' = NoReturn
          /\ UNCHANGED securityVars
       \/ /\ procs[p].op = "validateToken" /\ procs[p].pc = "reading"
          /\ IF authStore # <<>>
             THEN /\ procs' = [procs EXCEPT ![p].pc = "read",
                                            ![p].entry = <<authStore[1].token>>]
                  /\ ret' = NoReturn
             ELSE /\ procs' = [procs EXCEPT ![p] = Idle]
                  /\ ret' = Returns(p, "validateToken", NoSession,
                                    [valid |-> FALSE,
                                     reason |-> "Authentication system unavailable"],
                                    procs[p].message[1])
          /\ UNCHANGED securityVars
       \/ /\ procs[p].op = "validateToken" /\ procs[p].pc = "read"
          /\ cachedToken' = procs[p].entry
          /\ ret' = Returns(p, "validateToken", NoSession,
                            validationResult(procs[p].message[1], procs[p].entry[1]),
                            procs[p].message[1])
          /\ procs' = [procs EXCEPT ![p] = Idle]
          /\ UNCHANGED authStore
    /\ UNCHANGED <<files, birth, now, uuids, returned, deleteCalled, faults>>
    /\ UNCHANGED <<indexVars, compactVars, bootstrapCache, gatewayVars>>

\* rotateToken, step by step, one rotation over before the next is asked
\* for: generateToken, and loadAuthStore for createdAt; saveAuthStore
\* renames the temporary file to auth.json; saveAuthStore has returned, and
\* the new token is cached and returned
RotateToken(p) ==
    /\ \/ /\ procs[p] = Idle
          /\ \A q \in Callers : procs[q].op # "rotateToken"
          /\ \E newToken \in GeneratedTokens \ TokensInUse :
                 procs' = [procs EXCEPT ![p] =
                     [Idle EXCEPT !.op = "rotateToken", !.pc = "saving",
                                  !.entry = <<newToken>>,
                                  !.scan = IF authStore # <<>>
                                           THEN <<authStore[1].createdAt>> ELSE <<now>>]]
          /\ ret' = NoReturn
          /\ UNCHANGED securityVars
       \/ /\ procs[p].op = "rotateToken" /\ procs[p].pc = "saving"
          /\ authStore' = <<[token |-> procs[p].entry[1],
                             createdAt |-> procs[p].scan[1], rotatedAt |-> <<now>>]>>
          /\ procs' = [procs EXCEPT ![p].pc = "saved"]
          /\ ret' = NoReturn
          /\ UNCHANGED cachedToken
       \/ /\ procs[p].op = "rotateToken" /\ procs[p].pc = "saved"
          /\ cachedToken' = procs[p].entry
          /\ ret' = Returns(p, "rotateToken", NoSession, [token |-> procs[p].entry[1]],
                            <<>>)
          /\ procs' = [procs EXCEPT ![p] = Idle]
          /\ UNCHANGED authStore
    /\ UNCHANGED <<files, birth, now, uuids, returned, deleteCalled, faults>>
    /\ UNCHANGED <<indexVars, compactVars, bootstrapCache, gatewayVars>>

\* one SecurityManager at a time on auth.json, its calls interleaving at
\* every await
NextSecurity ==
    \/ NewSecurityManager
    \/ \E p \in Callers :
          \/ Initialize(p)
          \/ ValidateToken(p, ProvidedTokens)
          \/ RotateToken(p)

SpecSecurity == Init /\ [][NextSecurity]_vars

\* C30: when no other call is in flight, a validateToken call reports valid
\* exactly when the token it was given is the token of auth.json, the one
\* the latest rotateToken or initialize to complete has stored
ValidIsTheCurrentToken ==
    [][\A p \in Callers :
          (/\ ret'.op = "validateToken" /\ ret'.caller = p
           /\ procs' = [q \in Callers |-> Idle]
           /\ \A q \in Callers \ {p} : procs[q] = Idle
           /\ procs[p] = Idle
           /\ authStore # <<>>)
          => (ret'.val[1].valid <=> ret'.input = authStore[1].token)]_vars

-----------------------------------------------------------------------------
(* GatewayServer: connections, authentication, the routing of client       *)
(* messages, the requests in flight, and stop().  A client's id is its     *)
(* caller name; a client has one request in flight at a time, and the      *)
(* request is named after it.                                              *)

\* handleMessage: where a parsed message of a connection goes
routeUnchecked(connection, type) ==
    IF type = "auth" THEN "auth"
    ELSE IF type \in {"create_session", "load_session", "message"} THEN type
    ELSE "Unknown message type"

route(connection, type) ==
    IF type = "auth" THEN "auth"
    ELSE IF ~connection.authenticated THEN "Not authenticated"
    ELSE IF type \in {"create_session", "load_session", "message"} THEN type
    ELSE "Unknown message type"

refusalIgnoringShutdown(connection, shuttingDown) ==
    IF connection.sessionId = <<>>
    THEN "No session selected. Create or load a session first."
    ELSE ""

\* handleUserMessage: the error it answers with before it takes the request
refusal(connection, shuttingDown) ==
    IF connection.sessionId = <<>>
    THEN "No session selected. Create or load a session first."
    ELSE IF shuttingDown THEN "Server is shutting down. Please try again later."
    ELSE ""

\* the isRunning, clientCount and inFlightCount getters
status(server, connections, requests) ==
    [isRunning |-> server = "listening",
     clientCount |-> Cardinality(DOMAIN connections),
     inFlightCount |-> Cardinality(DOMAIN requests)]

\* start(): securityManager.initialize(), createServer, listen
Start(token) ==
    /\ httpServer = "null" /\ stopping = <<>>
    /\ authStore' = initialize(authStore, token, now).authStore
    /\ cachedToken' = initialize(authStore, token, now).cachedToken
    /\ httpServer' = "listening"
    /\ ret' = Returns("", "start", NoSession,
                      status(httpServer', clients, inFlightRequests), <<>>)
    /\ UNCHANGED <<files, birth, now, uuids, procs, returned, deleteCalled, faults>>
    /\ UNCHANGED <<clients, inFlightRequests, isShuttingDown, stopping, aborted>>

\* handleConnection, while the WebSocketServer accepts connections
HandleConnection(c) ==
    /\ httpServer = "listening" /\ stopping \in {<<>>, <<"logging">>}
    /\ c \notin DOMAIN clients /\ procs[c] = Idle
    /\ clients' = Put(clients, c, [authenticated |-> FALSE, sessionId |-> <<>>])
    /\ ret' = Threw(c, "auth_result", NoSession, "Authentication required")
    /\ UNCHANGED <<files, birth, now, uuids, procs, returned, deleteCalled, faults>>
    /\ UNCHANGED <<inFlightRequests, isShuttingDown, httpServer, stopping, aborted,
                   securityVars>>

\* handleDisconnect
HandleDisconnect(c) ==
    /\ c \in DOMAIN clients
    /\ clients' = Remove(clients, c)
    /\ ret' = NoReturn
    /\ UNCHANGED <<files, birth, now, uuids, procs, returned, deleteCalled, faults>>
    /\ UNCHANGED <<inFlightRequests, isShuttingDown, httpServer, stopping, aborted,
                   securityVars>>

\* handleMessage of an auth message: handleAuth, on the token start() cached
HandleAuth(c, token) ==
    /\ c \in DOMAIN clients /\ cachedToken # <<>>
    /\ route(clients[c], "auth") = "auth"
    /\ clients' = IF validationResult(token, cachedToken[1]).valid
                  THEN [clients EXCEPT ![c].authenticated = TRUE] ELSE clients
    /\ ret' = Returns(c, "auth", NoSession, validationResult(token, cachedToken[1]),
                      token)
    /\ UNCHANGED <<files, birth, now, uuids, procs, returned, deleteCalled, faults>>
    /\ UNCHANGED <<inFlightRequests, isShuttingDown, httpServer, stopping, aborted,
                   securityVars>>

\* handleMessage of a message the connection is not authenticated for
NotAuthenticated(c, type) ==
    /\ c \in DOMAIN clients
    /\ route(clients[c], type) = "Not authenticated"
    /\ ret' = Threw(c, type, NoSession, "Not authenticated")
    /\ UNCHANGED <<files, birth, now, uuids, procs, returned, deleteCalled, faults>>
    /\ UNCHANGED <<gatewayVars, securityVars>>

\* handleMessage of create_session: handleCreateSession
HandleCreateSession(c, t) ==
    /\ c \in DOMAIN clients /\ procs[c] = Idle
    /\ route(clients[c], "create_session") = "create_session"
    /\ uuids < MaxUuids
    /\ now' = t
    /\ LET id == randomUUID(uuids)
       IN  /\ uuids' = id
           /\ files' = Put(files, id, createLog(id, t))
           /\ birth' = Put(birth, id, t)
           /\ returned' = Put(returned, id, <<>>)
           /\ clients' = [clients EXCEPT ![c].sessionId = <<id>>]
           /\ ret' = Returns(c, "create_session", id, [sessionId |-> id], <<>>)
    /\ UNCHANGED <<procs, deleteCalled, faults>>
    /\ UNCHANGED <<inFlightRequests, isShuttingDown, httpServer, stopping, aborted,
                   securityVars>>

\* handleMessage of load_session: handleLoadSession
HandleLoadSession(c, id) ==
    /\ c \in DOMAIN clients
    /\ route(clients[c], "load_session") = "load_session"
    /\ IF id \in DOMAIN files
       THEN /\ clients' = [clients EXCEPT ![c].sessionId = <<id>>]
            /\ ret' = Returns(c, "load_session", id, [sessionId |-> id], <<>>)
       ELSE /\ clients' = clients
            /\ ret' = Threw(c, "load_session", id, NotFound)
    /\ UNCHANGED <<files, birth, now, uuids, procs, returned, deleteCalled, faults>>
    /\ UNCHANGED <<inFlightRequests, isShuttingDown, httpServer, stopping, aborted,
                   securityVars>>

\* handleMessage of message: handleUserMessage, step by step.  Up to its
\* first await the request is refused, or tracked in inFlightRequests; then
\* the user message is appended to the transcript, and when appendMessage
\* throws the error is sent and the request dropped; then the agent has run
\* to its end, or the loop has seen the abort signal, the response collected,
\* if any, is appended, and the finally block deletes the request
HandleUserMessage(c, message, t, responses) ==
    /\ \/ /\ c \in DOMAIN clients /\ procs[c] = Idle
          /\ route(clients[c], "message") = "message"
          /\ IF refusal(clients[c], isShuttingDown) # ""
             THEN /\ ret' = Threw(c, "message", NoSession,
                                  refusal(clients[c], isShuttingDown))
                  /\ UNCHANGED <<procs, inFlightRequests>>
             ELSE /\ inFlightRequests' =
                         Put(inFlightRequests, c,
                             [sessionId |-> clients[c].sessionId[1], clientId |-> c])
                  /\ procs' = [procs EXCEPT ![c] =
                         [Idle EXCEPT !.op = "message", !.pc = "appending",
                                      !.id = clients[c].sessionId[1],
                                      !.message = <<message>>]]
                  /\ ret' = NoReturn
          /\ UNCHANGED <<files, now, uuids, returned, aborted>>
       \/ /\ procs[c].op = "message" /\ procs[c].pc = "appending"
          /\ LET id == procs[c].id
                 entry == buildEntry(randomUUID(uuids), t, procs[c].message[1])
             IN  IF id \in DOMAIN files
                 THEN /\ uuids < MaxUuids
                      /\ uuids' = randomUUID(uuids)
                      /\ now' = t
                      /\ files' = Put(files, id, files[id] \o appendLine(entry))
                      /\ returned' = [returned EXCEPT ![id] = Append(@, entry)]
                      /\ procs' = [procs EXCEPT ![c].pc = "running"]
                      /\ ret' = NoReturn
                      /\ UNCHANGED <<inFlightRequests, aborted>>
                 ELSE /\ ret' = Threw(c, "error", id, NotFound)
                      /\ procs' = [procs EXCEPT ![c] = Idle]
                      /\ inFlightRequests' = Remove(inFlightRequests, c)
                      /\ aborted' = aborted \ {c}
                      /\ UNCHANGED <<files, returned, uuids, now>>
       \/ /\ procs[c].op = "message" /\ procs[c].pc = "running"
          /\ \E fullResponse \in responses :
             LET id == procs[c].id
                 entry == buildEntry(randomUUID(uuids), t,
                                     [role |-> Role.assistant, content |-> fullResponse,
                                      toolCall |-> <<>>, toolResult |-> <<>>])
             IN  /\ IF fullResponse # <<>> /\ id \in DOMAIN files
                    THEN /\ uuids < MaxUuids
                         /\ uuids' = randomUUID(uuids)
                         /\ now' = t
                         /\ files' = Put(files, id, files[id] \o appendLine(entry))
                         /\ returned' = [returned EXCEPT ![id] = Append(@, entry)]
                    ELSE UNCHANGED <<files, returned, uuids, now>>
                 /\ ret' = Returns(c, "done", id, [content |-> fullResponse], <<>>)
          /\ procs' = [procs EXCEPT ![c] = Idle]
          /\ inFlightRequests' = Remove(inFlightRequests, c)
          /\ aborted' = aborted \ {c}
    /\ UNCHANGED <<birth, deleteCalled, faults>>
    /\ UNCHANGED <<clients, isShuttingDown, httpServer, stopping, securityVars>>

\* stop(), step by step: isShuttingDown is set, and the first log line is
\* awaited; wss.close(), and the loop that waits for the requests in flight;
\* the loop is left, with no request in flight or after 30 seconds, the
\* requests left are aborted and forgotten, the connections closed and
\* forgotten, and httpServer.close() is awaited; the server has closed, and
\* stop() returns
Stop ==
    /\ \/ /\ httpServer = "listening" /\ stopping = <<>>
          /\ isShuttingDown' = TRUE
          /\ stopping' = <<"logging">>
          /\ ret' = NoReturn
          /\ UNCHANGED <<clients, inFlightRequests, httpServer, aborted>>
       \/ /\ stopping = <<"logging">>
          /\ stopping' = <<"waiting">>
          /\ ret' = NoReturn
          /\ UNCHANGED <<clients, inFlightRequests, isShuttingDown, httpServer, aborted>>
       \/ /\ stopping = <<"waiting">>
          /\ aborted' = aborted \cup DOMAIN inFlightRequests
          /\ inFlightRequests' = <<>>
          /\ clients' = <<>>
          /\ httpServer' = "closing"
          /\ stopping' = <<"closing">>
          /\ ret' = NoReturn
          /\ UNCHANGED isShuttingDown
       \/ /\ stopping = <<"closing">>
          /\ httpServer' = "null"
          /\ isShuttingDown' = FALSE
          /\ stopping' = <<>>
          /\ ret' = Returns("", "stop", NoSession,
                            status(httpServer', clients, inFlightRequests), <<>>)
          /\ UNCHANGED <<clients, inFlightRequests, aborted>>
    /\ UNCHANGED <<files, birth, now, uuids, procs, returned, deleteCalled, faults>>
    /\ UNCHANGED securityVars

\* the messages clients send past authentication
RequestTypes == {"create_session", "load_session", "message"}

NextGateway ==
    /\ \/ Start(CHOOSE token \in GeneratedTokens : TRUE)
       \/ \E c \in Callers :
             \/ HandleConnection(c)
             \/ HandleDisconnect(c)
             \/ \E token \in ProvidedTokens : HandleAuth(c, token)
             \/ \E type \in RequestTypes : NotAuthenticated(c, type)
             \/ HandleCreateSession(c, now)
             \/ \E id \in CallIds : HandleLoadSession(c, id)
             \/ HandleUserMessage(c, CHOOSE m \in Messages : m.role = Role.user, now,
                                  {<<>>, <<"o", "k">>})
       \/ Stop
    /\ UNCHANGED <<indexVars, compactVars, bootstrapCache>>

SpecGateway == Init /\ [][NextGateway]_vars

\* C28: a create_session, load_session or message request of a connection
\* that is not authenticated is answered 'Not authenticated' and changes
\* nothing: no session file, no transcript, no connection, no request in
\* flight, no handler running
UnauthenticatedHasNoEffect ==
    [][\A c \in DOMAIN clients :
          (~clients[c].authenticated /\ ret'.caller = c /\ ret'.op \in RequestTypes)
          => /\ ret'.err = "Not authenticated"
             /\ UNCHANGED <<files, birth, uuids, returned, procs, clients,
                            inFlightRequests>>]_vars

\* a message of a connection that is not authenticated was refused while
\* another connection, authenticated, has a session and a request in flight
UnauthenticatedWitness ==
    /\ ret.err = "Not authenticated" /\ ret.op = "message"
    /\ ret.caller \in DOMAIN clients /\ ~clients[ret.caller].authenticated
    /\ \E c \in DOMAIN clients :
           clients[c].authenticated /\ c \in DOMAIN inFlightRequests

\* C29: while stop() runs no user message is taken, each one is answered
\* with an error; when stop() closes the connections every request still
\* running has been aborted; and once stop() has returned the gateway is not
\* running and has no client and no request in flight
StopIsGraceful ==
    [][/\ isShuttingDown =>
              /\ \A c \in Callers : procs[c] = Idle => procs'[c] = Idle
              /\ DOMAIN inFlightRequests' \subseteq DOMAIN inFlightRequests
              /\ ret'.op = "message" => ret'.err # ""
       /\ (stopping = <<"waiting">> /\ stopping' = <<"closing">>) =>
              \A c \in Callers : procs[c].op = "message" => c \in aborted'
       /\ ret'.op = "stop" =>
              ret'.val[1] = [isRunning |-> FALSE, clientCount |-> 0, inFlightCount |-> 0]
       /\ httpServer' = "null" => clients' = <<>> /\ inFlightRequests' = <<>>]_vars

\* stop() has returned after it aborted a request whose handler is still
\* running
StopIsGracefulWitness ==
    /\ ret.op = "stop"
    /\ aborted # {}
    /\ \E c \in aborted : procs[c].op = "message"

====
